---------------------------- MODULE Spec2Model ----------------------------
(***************************************************************************)
(* A model of the ImportFinder import resolution engine                    *)
(* (sebastianiscruleasa/ImportFinder): project scoping, the Java and the   *)
(* JS/TS extractors, and the main loop that aggregates their statements.   *)
(*                                                                         *)
(* Strings of the program are sequences of one-character strings, so that  *)
(* startsWith, slice, lastIndexOf and split act on characters as they do   *)
(* in the code.                                                            *)
(***************************************************************************)
EXTENDS Integers, Sequences, FiniteSets, TLC

VARIABLES
    call,              \* the arguments of the function under analysis
    ret,               \* its result, NoRet before it has been applied
    repo,              \* the repository tree handed to the engine
    pc,                \* position of the main IIFE
    extractors,        \* groupFilesByExtractor's Map<LanguageExtractor, string[]>
    ei,                \* index of the extractor being iterated (main.ts:11)
    fi,                \* index of the file being iterated (main.ts:12)
    importStatements,  \* main.ts:8, the aggregated statements
    returned,          \* per call of extractor.extractImports: what it was given and returned
    output,            \* what saveImportsToJsonFile wrote, NotWritten before
    exitCode           \* the process exit status, 0 unless process.exit(1) ran

vars == <<call, ret, repo, pc, extractors, ei, fi, importStatements,
          returned, output, exitCode>>

runVars == <<repo, pc, extractors, ei, fi, importStatements, returned,
             output, exitCode>>

\* No result yet: the function has not been applied.
NoRet == [done |-> FALSE]

\* The result of an applied function.
Done(v) == [done |-> TRUE, value |-> v]
Undefined == "undefined"

-----------------------------------------------------------------------------
(* JavaScript string primitives *)

\* The empty string ''.
Empty == <<>>

\* String.prototype.startsWith
StartsWith(s, p) == Len(p) <= Len(s) /\ SubSeq(s, 1, Len(p)) = p

\* String.prototype.endsWith
EndsWith(s, p) == Len(p) <= Len(s) /\ SubSeq(s, Len(s) - Len(p) + 1, Len(s)) = p

SetMax(S) == CHOOSE x \in S : \A y \in S : y <= x

\* String.prototype.lastIndexOf for a one-character needle: 0-based, -1 when absent.
LastIndexOf(s, c) ==
    LET I == {i \in 1..Len(s) : s[i] = c}
    IN  IF I = {} THEN -1 ELSE SetMax(I) - 1

\* How slice() reads one index of a string of length n.
SliceIndex(i, n) ==
    IF i < 0 THEN (IF n + i < 0 THEN 0 ELSE n + i)
    ELSE IF i > n THEN n ELSE i

\* String.prototype.slice(b, e), negative indexes counted from the end.
Slice(s, b, e) ==
    LET bb == SliceIndex(b, Len(s))
        ee == SliceIndex(e, Len(s))
    IN  IF bb >= ee THEN Empty ELSE SubSeq(s, bb + 1, ee)

\* String.prototype.slice(b)
SliceFrom(s, b) == Slice(s, b, Len(s))

\* String.prototype.split for a one-character separator.
RECURSIVE Split(_, _)
Split(s, c) ==
    LET I == {i \in 1..Len(s) : s[i] = c}
    IN  IF I = {} THEN <<s>>
        ELSE LET k == CHOOSE i \in I : \A j \in I : i <= j
             IN  <<SubSeq(s, 1, k - 1)>> \o Split(SubSeq(s, k + 1, Len(s)), c)

\* Array.prototype.join
\* Array.prototype.flat: the concatenation of the sequences of a sequence.
RECURSIVE Flatten(_)
Flatten(qs) == IF qs = <<>> THEN <<>> ELSE Head(qs) \o Flatten(Tail(qs))

RECURSIVE Join(_, _)
Join(parts, sep) ==
    IF Len(parts) = 0 THEN Empty
    ELSE IF Len(parts) = 1 THEN parts[1]
    ELSE parts[1] \o sep \o Join(Tail(parts), sep)

\* The elements of a sequence.
Range(q) == {q[i] : i \in DOMAIN q}

\* All sequences over S of length at most n.
SeqsUpTo(S, n) == UNION {[1..k -> S] : k \in 0..n}

\* All sequences over S of length at most n without a repeated element.
DistinctSeqsUpTo(S, n) ==
    {q \in SeqsUpTo(S, n) : \A i, j \in DOMAIN q : i # j => q[i] # q[j]}

Slash == <<"/">>
Dot == <<".">>

-----------------------------------------------------------------------------
(* Project scoping: extractors.util.ts *)

\* findProjectPath with the first root preferred whatever its length.
RECURSIVE findProjectPathFirstWins(_, _, _, _)
findProjectPathFirstWins(filePath, projectPaths, i, bestMatch) ==
    IF i > Len(projectPaths) THEN bestMatch
    ELSE findProjectPathFirstWins(filePath, projectPaths, i + 1,
            IF StartsWith(filePath, projectPaths[i]) /\ bestMatch = Empty
            THEN projectPaths[i] ELSE bestMatch)

\* The loop of findProjectPath from its i-th root on, bestMatch so far.
RECURSIVE findProjectPathLoop(_, _, _, _)
findProjectPathLoop(filePath, projectPaths, i, bestMatch) ==
    IF i > Len(projectPaths) THEN bestMatch
    ELSE findProjectPathLoop(filePath, projectPaths, i + 1,
            IF StartsWith(filePath, projectPaths[i])
               /\ (bestMatch = Empty \/ Len(projectPaths[i]) > Len(bestMatch))
            THEN projectPaths[i] ELSE bestMatch)

findProjectPath(filePath, projectPaths) ==
    findProjectPathLoop(filePath, projectPaths, 1, Empty)


-----------------------------------------------------------------------------
(* Shared helpers of the extractors: extractors.util.ts *)

\* getRelativePathToRepo: String.replace removes the first occurrence of
\* repoPath, which is the prefix here, then one leading slash is removed.
getRelativePathToRepo(repoPath, filePath) ==
    IF StartsWith(filePath, repoPath)
    THEN LET rest == SliceFrom(filePath, Len(repoPath))
         IN  IF StartsWith(rest, Slash) THEN SliceFrom(rest, 1) ELSE rest
    ELSE filePath

L_Java == "Java"
L_JavaScript == "JavaScript"
L_TypeScript == "TypeScript"
L_JSX == "JavaScript (JSX)"
L_TSX == "TypeScript (TSX)"
L_Unknown == "Unknown"

Ext_java == <<".", "j", "a", "v", "a">>
Ext_js == <<".", "j", "s">>
Ext_ts == <<".", "t", "s">>
Ext_jsx == <<".", "j", "s", "x">>
Ext_tsx == <<".", "t", "s", "x">>

\* getLanguageByExtension over the extensionToLanguage record.
getLanguageByExtension(extension) ==
    CASE extension = Ext_java -> L_Java
      [] extension = Ext_js -> L_JavaScript
      [] extension = Ext_ts -> L_TypeScript
      [] extension = Ext_jsx -> L_JSX
      [] extension = Ext_tsx -> L_TSX
      [] OTHER -> L_Unknown

\* filePath.slice(filePath.lastIndexOf('.'))
extensionOf(filePath) == SliceFrom(filePath, LastIndexOf(filePath, "."))

\* path.basename of a path that does not end with a separator.
basename(p) == SliceFrom(p, LastIndexOf(p, "/") + 1)

\* isIgnored: a path part is an excluded directory, or the file name ends
\* with one of the patterns taken as literal text.
isIgnored(file, excludedDirectories, excludedFilePatterns) ==
    LET pathParts == Split(file, "/")
        fileName == basename(file)
        isInExcludedDir == \E i \in DOMAIN pathParts : pathParts[i] \in excludedDirectories
        isExcludedFile == \E pattern \in excludedFilePatterns : EndsWith(fileName, pattern)
    IN  isInExcludedDir \/ isExcludedFile

-----------------------------------------------------------------------------
(* The Java extractor: extractors/java.ts *)

Jdk_java == <<"j", "a", "v", "a", ".">>
Jdk_jdk == <<"j", "d", "k", ".">>
Jdk_javax == <<"j", "a", "v", "a", "x", ".">>
Star == <<"*">>
DotStar == <<".", "*">>

\* isJdkModule
isJdkModule(moduleName) ==
    \/ StartsWith(moduleName, Jdk_java)
    \/ StartsWith(moduleName, Jdk_jdk)
    \/ StartsWith(moduleName, Jdk_javax)

\* isLocalImport that consults the first group id only.
isLocalImportFirstOnly(importedClass, repoGroupIds) ==
    repoGroupIds # <<>> /\ StartsWith(importedClass, repoGroupIds[1])

\* isLocalImport of java.ts: some group id is a string prefix of the class.
isLocalImport(importedClass, repoGroupIds) ==
    \E i \in DOMAIN repoGroupIds : StartsWith(importedClass, repoGroupIds[i])

\* fallbackForNotFindingJarMatch that takes the static member split for
\* static wildcards too (library without the last two segments).
fallbackStaticSplitFirst(importedClass, isWildcard, isStatic) ==
    LET parts == Split(importedClass, ".")
        lastDotIndex == LastIndexOf(importedClass, ".")
    IN  IF isStatic /\ Len(parts) > 2
        THEN [library |-> Join(SubSeq(parts, 1, Len(parts) - 2), Dot),
              importedEntity |-> Join(SubSeq(parts, Len(parts) - 1, Len(parts)), Dot)
                                 \o (IF isWildcard THEN DotStar ELSE Empty)]
        ELSE [library |-> Slice(importedClass, 0, lastDotIndex),
              importedEntity |-> IF isWildcard THEN Star
                                 ELSE SliceFrom(importedClass, lastDotIndex + 1)]

\* fallbackForNotFindingJarMatch: the guess from the import statement alone.
fallbackForNotFindingJarMatch(importedClass, isWildcard, isStatic) ==
    LET lastDotIndex == LastIndexOf(importedClass, ".")
        parts == Split(importedClass, ".")
    IN  IF isWildcard
        THEN [library |-> Slice(importedClass, 0, lastDotIndex),
              importedEntity |-> IF isStatic
                                 THEN SliceFrom(importedClass, lastDotIndex + 1) \o DotStar
                                 ELSE Star]
        ELSE IF isStatic /\ Len(parts) > 2
        THEN [library |-> Join(SubSeq(parts, 1, Len(parts) - 2), Dot),
              importedEntity |-> Join(SubSeq(parts, Len(parts) - 1, Len(parts)), Dot)]
        ELSE IF lastDotIndex # -1
        THEN [library |-> Slice(importedClass, 0, lastDotIndex),
              importedEntity |-> SliceFrom(importedClass, lastDotIndex + 1)]
        ELSE [library |-> Empty, importedEntity |-> importedClass]

\* A Map<string, ImportedClassMetadata> is the sequence of its entries
\* [key, jar, entity] in insertion order. The position of a key, 0 when absent.
mapIndexOf(packageToJarMap, key) ==
    LET I == {i \in DOMAIN packageToJarMap : packageToJarMap[i].key = key}
    IN  IF I = {} THEN 0 ELSE CHOOSE i \in I : TRUE

\* The position of the first entry whose key starts with the prefix, 0 when none:
\* Array.from(map.entries()).find(([key]) => key.startsWith(prefix)).
mapFindKeyPrefix(packageToJarMap, prefix) ==
    LET I == {i \in DOMAIN packageToJarMap : StartsWith(packageToJarMap[i].key, prefix)}
    IN  IF I = {} THEN 0 ELSE CHOOSE i \in I : \A j \in I : i <= j

\* getLibraryAndImportedEntity that looks a static member import up by its
\* class, the target without its last segment.
getLibraryAndImportedEntityByClass(importedClass, isStatic, isWildcard, packageToJarMap) ==
    LET lastDotIndex == LastIndexOf(importedClass, ".")
        owner == IF isStatic /\ ~isWildcard /\ lastDotIndex # -1
                 THEN Slice(importedClass, 0, lastDotIndex) ELSE importedClass
        exact == mapIndexOf(packageToJarMap, owner)
        match == mapFindKeyPrefix(packageToJarMap, importedClass \o Dot)
    IN  IF exact # 0
        THEN [library |-> packageToJarMap[exact].jar,
              importedEntity |-> IF ~isWildcard THEN packageToJarMap[exact].entity
                                 ELSE Star]
        ELSE IF isWildcard /\ match # 0
        THEN [library |-> packageToJarMap[match].jar, importedEntity |-> Star]
        ELSE fallbackForNotFindingJarMatch(importedClass, isWildcard, isStatic)

\* getLibraryAndImportedEntity
getLibraryAndImportedEntity(importedClass, isStatic, isWildcard, packageToJarMap) ==
    LET exact == mapIndexOf(packageToJarMap, importedClass)
        match == mapFindKeyPrefix(packageToJarMap, importedClass \o Dot)
    IN  IF exact # 0
        THEN [library |-> packageToJarMap[exact].jar,
              importedEntity |-> IF ~isWildcard THEN packageToJarMap[exact].entity
                                 ELSE Star]
        ELSE IF isWildcard /\ match # 0
        THEN [library |-> packageToJarMap[match].jar, importedEntity |-> Star]
        ELSE fallbackForNotFindingJarMatch(importedClass, isWildcard, isStatic)

\* match[0].trim() of a statement written in its plain form.
W_import == <<"i", "m", "p", "o", "r", "t", " ">>
W_static == <<"s", "t", "a", "t", "i", "c", " ">>
Semicolon == <<";">>

javaFullImport(m) ==
    W_import \o (IF m.isStatic THEN W_static ELSE Empty) \o m.importedClass
        \o (IF m.isWildcard THEN DotStar ELSE Empty) \o Semicolon

\* The modifiers array of a Java statement: match[4] does not exist in the
\* pattern, so the alias element is always filtered out.
javaModifiers(isStatic, isWildcard) ==
    (IF isStatic THEN <<"static">> ELSE <<>>)
        \o (IF isWildcard THEN <<"wildcard">> ELSE <<>>)

\* The while loop of extractImports, but skipping a statement whose resolved
\* library is the empty string.
RECURSIVE javaStatementsDropEmpty(_, _, _, _, _, _)
javaStatementsDropEmpty(matches, relativePath, language, projectPath, groupIds, importedClassToJarMap) ==
    IF matches = <<>> THEN <<>>
    ELSE LET m == Head(matches)
             r == getLibraryAndImportedEntity(m.importedClass, m.isStatic,
                                              m.isWildcard, importedClassToJarMap)
             rest == javaStatementsDropEmpty(Tail(matches), relativePath, language,
                                             projectPath, groupIds, importedClassToJarMap)
         IN  IF isLocalImport(m.importedClass, groupIds) \/ isJdkModule(r.library)
                \/ r.library = Empty
             THEN rest
             ELSE <<[file |-> relativePath,
                     projectPath |-> projectPath,
                     importedEntity |-> r.importedEntity,
                     modifiers |-> javaModifiers(m.isStatic, m.isWildcard),
                     language |-> language,
                     library |-> r.library,
                     fullImport |-> javaFullImport(m)]>> \o rest

\* The while loop of extractImports, but without the test of the resolved
\* library against the platform namespaces.
RECURSIVE javaStatementsKeepPlatform(_, _, _, _, _, _)
javaStatementsKeepPlatform(matches, relativePath, language, projectPath, groupIds, importedClassToJarMap) ==
    IF matches = <<>> THEN <<>>
    ELSE LET m == Head(matches)
             r == getLibraryAndImportedEntity(m.importedClass, m.isStatic,
                                              m.isWildcard, importedClassToJarMap)
             rest == javaStatementsKeepPlatform(Tail(matches), relativePath, language,
                                                projectPath, groupIds, importedClassToJarMap)
         IN  IF isLocalImport(m.importedClass, groupIds)
             THEN rest
             ELSE <<[file |-> relativePath,
                     projectPath |-> projectPath,
                     importedEntity |-> r.importedEntity,
                     modifiers |-> javaModifiers(m.isStatic, m.isWildcard),
                     language |-> language,
                     library |-> r.library,
                     fullImport |-> javaFullImport(m)]>> \o rest

\* The while loop of extractImports (java.ts:66-103) over the successive
\* matches of importRegex in the file content, each match being
\* [importedClass (match[2]), isStatic (match[1]), isWildcard (match[3])].
RECURSIVE javaStatements(_, _, _, _, _, _)
javaStatements(matches, relativePath, language, projectPath, groupIds, importedClassToJarMap) ==
    IF matches = <<>> THEN <<>>
    ELSE LET m == Head(matches)
             r == getLibraryAndImportedEntity(m.importedClass, m.isStatic,
                                              m.isWildcard, importedClassToJarMap)
             rest == javaStatements(Tail(matches), relativePath, language,
                                    projectPath, groupIds, importedClassToJarMap)
         IN  IF isLocalImport(m.importedClass, groupIds) \/ isJdkModule(r.library)
             THEN rest
             ELSE <<[file |-> relativePath,
                     projectPath |-> projectPath,
                     importedEntity |-> r.importedEntity,
                     modifiers |-> javaModifiers(m.isStatic, m.isWildcard),
                     language |-> language,
                     library |-> r.library,
                     fullImport |-> javaFullImport(m)]>> \o rest

\* What a call of an extractImports gives its caller.
Threw == [threw |-> TRUE, statements |-> <<>>]
Returned(statements) == [threw |-> FALSE, statements |-> statements]

\* extractImports of java.ts without its try/catch: a failure to read the
\* file is thrown to the caller.
javaExtractImportsNoCatch(filePath, repoPath, projectPath, groupIds, hasMap, importedClassToJarMap, file) ==
    IF ~hasMap \/ ~file.readable THEN Threw
    ELSE Returned(javaStatements(file.matches,
                                 getRelativePathToRepo(repoPath, filePath),
                                 getLanguageByExtension(extensionOf(filePath)),
                                 projectPath, groupIds, importedClassToJarMap))

\* extractImports of java.ts. hasMap: the project has an entry in
\* importedClassToJarMaps; file: [readable, matches], the outcome of
\* fs.readFile and the matches of importRegex in the content.
javaExtractImports(filePath, repoPath, projectPath, groupIds, hasMap, importedClassToJarMap, file) ==
    IF ~hasMap THEN Threw
    ELSE IF ~file.readable THEN Returned(<<>>)
    ELSE Returned(javaStatements(file.matches,
                                 getRelativePathToRepo(repoPath, filePath),
                                 getLanguageByExtension(extensionOf(filePath)),
                                 projectPath, groupIds, importedClassToJarMap))

-----------------------------------------------------------------------------
(* Manifest analysis of the Java family: extractors/java.ts *)

\* String.prototype.includes
Includes(s, sub) ==
    \E i \in 1..(Len(s) - Len(sub) + 1) : SubSeq(s, i, i + Len(sub) - 1) = sub

\* path.dirname of a normalized absolute path.
dirname(p) ==
    LET k == LastIndexOf(p, "/")
    IN  IF k <= 0 THEN Slash ELSE Slice(p, 0, k)

PomXml == <<"p", "o", "m", ".", "x", "m", "l">>

\* The while loop of findRootPomXmlPathsFromFiles stopped after its first
\* iteration: the parent directory holds a pom.
hasPomParent(currentDir, pomDirs) ==
    dirname(currentDir) # currentDir /\ dirname(currentDir) \in pomDirs

\* The while loop of findRootPomXmlPathsFromFiles: some proper ancestor of
\* currentDir holds a pom.
RECURSIVE hasPomAncestor(_, _)
hasPomAncestor(currentDir, pomDirs) ==
    LET parentDir == dirname(currentDir)
    IN  IF parentDir = currentDir THEN FALSE
        ELSE IF parentDir \in pomDirs THEN TRUE
        ELSE hasPomAncestor(parentDir, pomDirs)

\* findRootPomXmlPathsFromFiles
findRootPomXmlPathsFromFiles(xmlFilePaths) ==
    LET isPom(p) == basename(p) = PomXml
        pomFiles == SelectSeq(xmlFilePaths, isPom)
        pomDirs == {dirname(pomFiles[i]) : i \in DOMAIN pomFiles}
        isRoot(p) == ~hasPomAncestor(dirname(p), pomDirs)
    IN  SelectSeq(pomFiles, isRoot)

\* A pom is [readable, content]; its content is the sequence of its <parent>,
\* </parent> and <groupId>value</groupId> elements, value matching [\w.]+.
T_parentOpen == "<parent>"
T_parentClose == "</parent>"
T_groupId == "<groupId>"

\* pomContent.replace(/<parent>[\s\S]*?<\/parent>/, ''): the first <parent>
\* up to the first </parent> after it is removed.
removeParentBlock(content) ==
    LET opens == {i \in DOMAIN content : content[i].t = T_parentOpen}
        spans == {i \in opens : \E j \in DOMAIN content :
                                    j > i /\ content[j].t = T_parentClose}
    IN  IF spans = {} THEN content
        ELSE LET i == CHOOSE x \in spans : \A y \in spans : x <= y
                 closes == {j \in DOMAIN content : j > i /\ content[j].t = T_parentClose}
                 j == CHOOSE x \in closes : \A y \in closes : x <= y
             IN  SubSeq(content, 1, i - 1) \o SubSeq(content, j + 1, Len(content))

\* findGroupId: the first group id left after the parent block is removed;
\* the empty string stands for null.
findGroupId(pom) ==
    IF ~pom.readable THEN Empty
    ELSE LET cleaned == removeParentBlock(pom.content)
             I == {i \in DOMAIN cleaned : cleaned[i].t = T_groupId}
         IN  IF I = {} THEN Empty
             ELSE cleaned[CHOOSE i \in I : \A j \in I : i <= j].value

\* Array.from(new Set(...)): the first occurrences, in order.
RECURSIVE uniqueSeq(_)
uniqueSeq(q) ==
    IF q = <<>> THEN <<>>
    ELSE LET front == uniqueSeq(SubSeq(q, 1, Len(q) - 1))
             last == q[Len(q)]
         IN  IF last \in Range(front) THEN front ELSE Append(front, last)

\* findGroupIds over the projects of the root poms.
findGroupIds(projects) ==
    LET nonNull(g) == g # Empty
    IN  uniqueSeq(SelectSeq([i \in DOMAIN projects |-> findGroupId(projects[i].pom)],
                            nonNull))

W_jar == <<".", "j", "a", "r">>
W_sources == <<"-", "s", "o", "u", "r", "c", "e", "s">>
W_javadoc == <<"-", "j", "a", "v", "a", "d", "o", "c">>

\* findProjectJar: target is [ok, files], the outcome and the lines of ls;
\* the empty string stands for null.
findProjectJar(target) ==
    LET isArtifact(file) == /\ EndsWith(file, W_jar)
                            /\ ~Includes(file, W_sources)
                            /\ ~Includes(file, W_javadoc)
        files == SelectSeq(target.files, isArtifact)
    IN  IF ~target.ok \/ files = <<>> THEN Empty ELSE files[1]

Digits == {"0", "1", "2", "3", "4", "5", "6", "7", "8", "9"}

\* The third group of the report line pattern, (\S+?)(?:\.jar)?\s*$: the
\* archive token without a final .jar, unless nothing would be left of it.
lineArchive(archive) ==
    IF EndsWith(archive, W_jar) /\ Len(archive) > Len(W_jar)
    THEN SubSeq(archive, 1, Len(archive) - Len(W_jar))
    ELSE archive

\* Whether /-(\d+(?:\.\d+)+.*)$/ matches from the dash at position i: digits,
\* then a dot and a digit.
versionStartsAt(s, i) ==
    /\ s[i] = "-"
    /\ \E j \in (i + 1)..Len(s) :
          /\ \A k \in (i + 1)..j : s[k] \in Digits
          /\ j + 2 <= Len(s)
          /\ s[j + 1] = "."
          /\ s[j + 2] \in Digits

\* importedJar.replace(/\.jar$/, '').replace(/-(\d+(?:\.\d+)+.*)$/, '@$1'):
\* the pattern is matched at the leftmost dash it can start from.
normalizeJar(importedJar) ==
    LET s == IF EndsWith(importedJar, W_jar)
             THEN SubSeq(importedJar, 1, Len(importedJar) - Len(W_jar))
             ELSE importedJar
        I == {i \in DOMAIN s : versionStartsAt(s, i)}
    IN  IF I = {} THEN s
        ELSE LET i == CHOOSE x \in I : \A y \in I : x <= y
             IN  SubSeq(s, 1, i - 1) \o <<"@">> \o SubSeq(s, i + 1, Len(s))

\* Map.set on the sequence of entries: a known key keeps its place.
mapSet(packageToJarMap, entry) ==
    LET k == mapIndexOf(packageToJarMap, entry.key)
    IN  IF k = 0 THEN Append(packageToJarMap, entry)
        ELSE [packageToJarMap EXCEPT ![k] = entry]

\* The loop over the report lines (java.ts:344-367); a line is
\* [sourceClass, importedClass, archive], the three tokens of the pattern.
RECURSIVE indexReportLines(_, _, _, _)
indexReportLines(lines, groupId, projectJar, importedClassToJarMap) ==
    IF lines = <<>> THEN importedClassToJarMap
    ELSE LET line == Head(lines)
             importedJar == lineArchive(line.archive)
             parts == Split(line.importedClass, ".")
             skip == \/ importedJar = projectJar
                     \/ (groupId # Empty /\ ~StartsWith(line.sourceClass, groupId))
         IN  indexReportLines(Tail(lines), groupId, projectJar,
                 IF skip THEN importedClassToJarMap
                 ELSE mapSet(importedClassToJarMap,
                             [key |-> line.importedClass,
                              jar |-> normalizeJar(importedJar),
                              entity |-> parts[Len(parts)]]))

\* The control flow of the loop body with a catch that lets the remaining
\* commands run after a failing one.
afterToolKeepGoing(step, ok) ==
    CASE step = "ls" -> "mvn"
      [] step = "mvn" -> "javaVersion"
      [] step = "javaVersion" -> "jdeps"
      [] step = "jdeps" -> "jdepsTest"
      [] step = "jdepsTest" -> "parse"

\* The control flow of the loop body of generateImportedClassToJarMaps
\* (java.ts:286-338) around its external commands: after a command that
\* succeeded, the next command; after one that failed, `continue`.
afterTool(step, ok) ==
    IF ~ok THEN "continue"
    ELSE CASE step = "ls" -> "mvn"
           [] step = "mvn" -> "javaVersion"
           [] step = "javaVersion" -> "jdeps"
           [] step = "jdeps" -> "jdepsTest"
           [] step = "jdepsTest" -> "parse"

\* The external tools of one project succeed: mvn dependency:build-classpath,
\* java -version, jdeps on the artifact and jdeps on target/test-classes, all
\* inside one try block (java.ts:301-338).
toolsSucceed(tools) ==
    tools.classpath /\ tools.javaVersion /\ tools.jdeps /\ tools.jdepsTest

\* generateImportedClassToJarMaps: the Map by project path is the sequence of
\* its entries [projectPath, map]; projects are the root poms with what the
\* file system and the tools answer for each.
RECURSIVE generateImportedClassToJarMaps(_, _)
generateImportedClassToJarMaps(projects, byProject) ==
    IF projects = <<>> THEN byProject
    ELSE LET p == Head(projects)
             projectJar == findProjectJar(p.target)
         IN  generateImportedClassToJarMaps(Tail(projects),
                 IF projectJar = Empty \/ ~toolsSucceed(p.tools) THEN byProject
                 ELSE Append(byProject,
                             [projectPath |-> dirname(p.pomPath),
                              map |-> indexReportLines(p.tools.lines \o p.tools.testLines,
                                          findGroupId(p.pom), projectJar, <<>>)]))

\* createExtractor of java.ts: the state its closures capture.
javaCreateExtractor(javaProjects) ==
    LET xmlFilePaths == [i \in DOMAIN javaProjects |-> javaProjects[i].pomPath]
        rootPomXmlPaths == findRootPomXmlPathsFromFiles(xmlFilePaths)
        isRootProject(p) == p.pomPath \in Range(rootPomXmlPaths)
        roots == SelectSeq(javaProjects, isRootProject)
    IN  [family |-> "java",
         rootPomXmlPaths |-> rootPomXmlPaths,
         groupIds |-> findGroupIds(roots),
         importedClassToJarMaps |-> generateImportedClassToJarMaps(roots, <<>>)]

\* The project paths that are keys of importedClassToJarMaps, in order.
mapKeys(byProject) == [i \in DOMAIN byProject |-> byProject[i].projectPath]

\* importedClassToJarMaps.get(projectPath), the empty map when absent
\* (extractImports throws then, before the map is used).
mapOfProject(byProject, projectPath) ==
    LET I == {i \in DOMAIN byProject : byProject[i].projectPath = projectPath}
    IN  IF I = {} THEN <<>> ELSE byProject[CHOOSE i \in I : TRUE].map

\* The extractImports closure of the Java extractor with a missing map read
\* as an empty one.
javaExtractorExtractImportsNoThrow(extractor, filePath, repoPath, file) ==
    LET projectPath == findProjectPath(filePath, mapKeys(extractor.importedClassToJarMaps))
    IN  javaExtractImports(filePath, repoPath, projectPath, extractor.groupIds,
            TRUE,
            mapOfProject(extractor.importedClassToJarMaps, projectPath), file)

\* The extractImports closure of the Java extractor (java.ts:31-44).
javaExtractorExtractImports(extractor, filePath, repoPath, file) ==
    LET projectPath == findProjectPath(filePath, mapKeys(extractor.importedClassToJarMaps))
    IN  javaExtractImports(filePath, repoPath, projectPath, extractor.groupIds,
            projectPath \in Range(mapKeys(extractor.importedClassToJarMaps)),
            mapOfProject(extractor.importedClassToJarMaps, projectPath), file)

-----------------------------------------------------------------------------
(* The JS/TS extractor: plugins/javascript.ts *)

\* The registry of platform built-in modules (javascript.ts:480-521).
nodeModules ==
    {<<"a", "s", "s", "e", "r", "t">>,
     <<"a", "s", "y", "n", "c", "_", "h", "o", "o", "k", "s">>,
     <<"b", "u", "f", "f", "e", "r">>,
     <<"c", "h", "i", "l", "d", "_", "p", "r", "o", "c", "e", "s", "s">>,
     <<"c", "l", "u", "s", "t", "e", "r">>,
     <<"c", "o", "n", "s", "o", "l", "e">>,
     <<"c", "o", "n", "s", "t", "a", "n", "t", "s">>,
     <<"c", "r", "y", "p", "t", "o">>,
     <<"d", "g", "r", "a", "m">>,
     <<"d", "n", "s">>,
     <<"d", "o", "m", "a", "i", "n">>,
     <<"e", "v", "e", "n", "t", "s">>,
     <<"f", "s">>,
     <<"f", "s", "/", "p", "r", "o", "m", "i", "s", "e", "s">>,
     <<"h", "t", "t", "p">>,
     <<"h", "t", "t", "p", "2">>,
     <<"h", "t", "t", "p", "s">>,
     <<"i", "n", "s", "p", "e", "c", "t", "o", "r">>,
     <<"m", "o", "d", "u", "l", "e">>,
     <<"n", "e", "t">>,
     <<"o", "s">>,
     <<"p", "a", "t", "h">>,
     <<"p", "e", "r", "f", "_", "h", "o", "o", "k", "s">>,
     <<"p", "r", "o", "c", "e", "s", "s">>,
     <<"p", "u", "n", "y", "c", "o", "d", "e">>,
     <<"q", "u", "e", "r", "y", "s", "t", "r", "i", "n", "g">>,
     <<"r", "e", "a", "d", "l", "i", "n", "e">>,
     <<"r", "e", "p", "l">>,
     <<"s", "t", "r", "e", "a", "m">>,
     <<"s", "t", "r", "i", "n", "g", "_", "d", "e", "c", "o", "d", "e", "r">>,
     <<"t", "i", "m", "e", "r", "s">>,
     <<"t", "l", "s">>,
     <<"t", "r", "a", "c", "e", "_", "e", "v", "e", "n", "t", "s">>,
     <<"t", "t", "y">>,
     <<"u", "r", "l">>,
     <<"u", "t", "i", "l">>,
     <<"v", "8">>,
     <<"v", "m">>,
     <<"w", "o", "r", "k", "e", "r", "_", "t", "h", "r", "e", "a", "d", "s">>,
     <<"z", "l", "i", "b">>}

NodePrefix == <<"n", "o", "d", "e", ":">>

\* isNodeModule looking the specifier up as it is written.
isNodeModuleNoStrip(importPath) == importPath \in nodeModules

\* isNodeModule: the node: prefix is stripped before the lookup.
isNodeModule(importPath) ==
    LET normalized == IF StartsWith(importPath, NodePrefix)
                      THEN SliceFrom(importPath, 5) ELSE importPath
    IN  normalized \in nodeModules

\* isLocalAbsoluteImport without the separator: any specifier that starts
\* with a registered prefix.
isLocalAbsoluteImportNoSeparator(importPath, localAbsoluteImportPrefixes) ==
    \E prefix \in localAbsoluteImportPrefixes : StartsWith(importPath, prefix)

\* isLocalAbsoluteImport: the specifier is a registered prefix or continues
\* one with a separator.
isLocalAbsoluteImport(importPath, localAbsoluteImportPrefixes) ==
    \E prefix \in localAbsoluteImportPrefixes :
        importPath = prefix \/ StartsWith(importPath, prefix \o Slash)

\* isLocalImport of javascript.ts
jsIsLocalImport(importPath, localAbsoluteImportPrefixes) ==
    \/ StartsWith(importPath, <<".", "/">>)
    \/ StartsWith(importPath, <<".", ".", "/">>)
    \/ StartsWith(importPath, Slash)
    \/ isLocalAbsoluteImport(importPath, localAbsoluteImportPrefixes)

NoMatchInLockFile == <<"N", "o", " ", "m", "a", "t", "c", "h", " ", "f", "o", "u", "n", "d", " ", "i", "n", " ", "l", "o", "c", "k", " ", "f", "i", "l", "e">>

\* The candidates of fallbackResolveImport before they are sorted: the
\* scoped form first, then every segment prefix from the shortest.
fallbackCandidates(importPath) ==
    LET parts == Split(importPath, "/")
    IN  (IF StartsWith(importPath, <<"@">>) /\ Len(parts) >= 2
         THEN <<parts[1] \o Slash \o parts[2]>> ELSE <<>>)
        \o [i \in 1..Len(parts) |-> Join(SubSeq(parts, 1, i), Slash)]

\* fallbackResolveImport trying the candidates from the shortest on.
fallbackResolveShortest(libraryName, dependencyMap) ==
    LET candidates == fallbackCandidates(libraryName)
        I == {i \in DOMAIN candidates : candidates[i] \in DOMAIN dependencyMap}
    IN  IF I = {} THEN NoMatchInLockFile
        ELSE LET k == CHOOSE i \in I :
                          \A j \in I : Len(candidates[i]) <= Len(candidates[j])
             IN  dependencyMap[candidates[k]]

\* fallbackResolveImport: a Map<string, string> is the function from its keys;
\* the candidates are tried from the longest on (a stable sort by length, and
\* candidates of one length are one string, all being prefixes of the path).
fallbackResolveImport(libraryName, dependencyMap) ==
    LET candidates == fallbackCandidates(libraryName)
        I == {i \in DOMAIN candidates : candidates[i] \in DOMAIN dependencyMap}
    IN  IF I = {} THEN NoMatchInLockFile
        ELSE LET k == CHOOSE i \in I :
                          \A j \in I : Len(candidates[i]) >= Len(candidates[j])
             IN  dependencyMap[candidates[k]]

\* dependencyMap.get(value) ?? fallbackResolveImport(value, dependencyMap)
jsLibrary(value, dependencyMap) ==
    IF value \in DOMAIN dependencyMap THEN dependencyMap[value]
    ELSE fallbackResolveImport(value, dependencyMap)

\* One specifier of an import declaration as {name, modifier}; a modifier of
\* "null" is filtered out of the modifiers (javascript.ts:126-158).
jsImportedEntity(specifier) ==
    CASE specifier.type = "ImportDefaultSpecifier" ->
            [name |-> specifier.local, modifier |-> "null"]
      [] specifier.type = "ImportSpecifier" ->
            [name |-> specifier.local,
             modifier |-> IF specifier.imported # specifier.local
                          THEN "alias" ELSE "null"]
      [] specifier.type = "ImportNamespaceSpecifier" ->
            [name |-> <<"*", " ", "a", "s", " ">> \o specifier.local,
             modifier |-> "wildcard, alias"]

CommaSpace == <<",", " ">>

\* The importedEntity and modifiers of an import declaration.
jsDeclarationDetail(specifiers) ==
    LET importedEntities == [i \in DOMAIN specifiers |-> jsImportedEntity(specifiers[i])]
        notNull(m) == m # "null"
    IN  [importedEntity |->
             Join([i \in DOMAIN importedEntities |-> importedEntities[i].name], CommaSpace),
         modifiers |->
             SelectSeq([i \in DOMAIN importedEntities |-> importedEntities[i].modifier],
                         notNull)]

\* Whether a visited node passes the guard of its visitor: a string literal
\* source that is neither local nor a platform module. node.literal stands for
\* the syntactic part of the guard (source is a StringLiteral; for a call, the
\* callee is the identifier require and the first argument a StringLiteral).
jsNodePasses(node, localAbsoluteImportPrefixes) ==
    /\ node.literal
    /\ ~jsIsLocalImport(node.value, localAbsoluteImportPrefixes)
    /\ ~isNodeModule(node.value)

\* The statement a visitor pushes for a node that passes its guard.
jsStatement(node, relativePath, language, projectPath, dependencyMap) ==
    LET detail == IF node.type = "ImportDeclaration"
                  THEN jsDeclarationDetail(node.specifiers)
                  ELSE [importedEntity |-> Empty, modifiers |-> <<>>]
    IN  [file |-> relativePath,
         projectPath |-> projectPath,
         importedEntity |-> detail.importedEntity,
         modifiers |-> detail.modifiers,
         language |-> language,
         library |-> jsLibrary(node.value, dependencyMap),
         fullImport |-> node.text]

\* traverse(ast, {ImportDeclaration, CallExpression, ImportExpression})
\* (javascript.ts:103-243) over the nodes of these three kinds in the order
\* the traversal visits them.
RECURSIVE jsStatements(_, _, _, _, _, _)
jsStatements(nodes, relativePath, language, projectPath, localAbsoluteImportPrefixes, dependencyMap) ==
    IF nodes = <<>> THEN <<>>
    ELSE LET rest == jsStatements(Tail(nodes), relativePath, language, projectPath,
                                  localAbsoluteImportPrefixes, dependencyMap)
         IN  IF jsNodePasses(Head(nodes), localAbsoluteImportPrefixes)
             THEN <<jsStatement(Head(nodes), relativePath, language, projectPath,
                                dependencyMap)>> \o rest
             ELSE rest

\* extractImports of javascript.ts. hasMap: the project has an entry in
\* dependencyMap; file: [readable, nodes], whether fs.readFile and
\* babelParser.parse both succeed, and the import nodes of the tree.
jsExtractImports(filePath, repoPath, projectPath, localAbsoluteImportPrefixes, hasMap, dependencyMap, file) ==
    IF ~hasMap THEN Threw
    ELSE IF ~file.readable THEN Returned(<<>>)
    ELSE Returned(jsStatements(file.nodes,
                               getRelativePathToRepo(repoPath, filePath),
                               getLanguageByExtension(extensionOf(filePath)),
                               projectPath, localAbsoluteImportPrefixes,
                               dependencyMap))

-----------------------------------------------------------------------------
(* Manifest analysis of the JS/TS family: plugins/javascript.ts *)

W_slashStar == <<"/", "*">>
W_dotSlash == <<".", "/">>

\* key.replace(/\/\*$/, '')
cleanPathsKey(key) ==
    IF EndsWith(key, W_slashStar) THEN SubSeq(key, 1, Len(key) - 2) ELSE key

\* baseUrl.replace(/^\.\/?/, '').replace(/\/$/, '')
cleanBaseUrl(baseUrl) ==
    LET a == IF StartsWith(baseUrl, W_dotSlash) THEN SliceFrom(baseUrl, 2)
             ELSE IF StartsWith(baseUrl, Dot) THEN SliceFrom(baseUrl, 1)
             ELSE baseUrl
    IN  IF EndsWith(a, Slash) THEN SubSeq(a, 1, Len(a) - 1) ELSE a

\* One iteration of extractLocalAbsoluteImportPrefixes: the prefixes one
\* configuration file adds. A file that cannot be read or parsed adds none;
\* content is [hasPaths, paths (the keys), baseUrl ('' when absent)].
prefixesOfConfig(config) ==
    IF ~config.readable THEN {}
    ELSE IF config.content.hasPaths
    THEN {cleanPathsKey(config.content.paths[i]) : i \in DOMAIN config.content.paths}
    ELSE IF config.content.baseUrl # Empty
            /\ cleanBaseUrl(config.content.baseUrl) # Empty
    THEN {cleanBaseUrl(config.content.baseUrl)}
    ELSE {}

\* extractLocalAbsoluteImportPrefixes
extractLocalAbsoluteImportPrefixes(configs) ==
    UNION {prefixesOfConfig(configs[i]) : i \in DOMAIN configs}

\* groupPackageJsonAndLockFiles: each package.json with the lock file of its
\* directory (the last one indexed for that directory).
groupPackageJsonAndLockFiles(packageJsons, packageLocks) ==
    LET lockOf(dir) ==
            LET I == {i \in DOMAIN packageLocks : dirname(packageLocks[i].path) = dir}
            IN  IF I = {} THEN 0 ELSE SetMax(I)
        hasLock(pj) == lockOf(dirname(pj.path)) # 0
        paired == SelectSeq(packageJsons, hasLock)
    IN  [i \in DOMAIN paired |->
            [packageJson |-> paired[i],
             packageLock |-> packageLocks[lockOf(dirname(paired[i].path))]]]

AtSign == <<"@">>

\* The name -> name@version entries of one lock file; deps is the sequence
\* of [name, version] the lock file parser yields.
depEntries(deps) ==
    [name \in {deps[i].name : i \in DOMAIN deps} |->
        LET I == {i \in DOMAIN deps : deps[i].name = name}
        IN  name \o AtSign \o deps[SetMax(I)].version]

\* Whether indexing one package group throws: the lock file cannot be read,
\* its version or content cannot be parsed, or (newer lock files) the
\* package.json cannot be read. Nothing in buildDependencyMap catches it.
groupThrows(group) ==
    \/ ~group.packageLock.readable
    \/ ~group.packageLock.content.parses
    \/ (group.packageLock.content.version # "v1" /\ ~group.packageJson.readable)

\* buildDependencyMap over the package groups: [threw, depMap], depMap the
\* sequence of the entries [projectPath, map] of the Map by project.
RECURSIVE buildDependencyMap(_, _)
buildDependencyMap(groups, depMap) ==
    IF groups = <<>> THEN [threw |-> FALSE, depMap |-> depMap]
    ELSE LET g == Head(groups)
         IN  IF groupThrows(g) THEN [threw |-> TRUE, depMap |-> depMap]
             ELSE buildDependencyMap(Tail(groups),
                     IF g.packageLock.content.version = "v1"
                        /\ ~g.packageLock.content.hasDependencies
                     THEN depMap
                     ELSE Append(depMap,
                                 [projectPath |-> dirname(g.packageJson.path),
                                  map |-> depEntries(g.packageLock.content.deps)]))

W_tsconfig == <<"t", "s", "c", "o", "n", "f", "i", "g", ".", "j", "s", "o", "n">>
W_jsconfig == <<"j", "s", "c", "o", "n", "f", "i", "g", ".", "j", "s", "o", "n">>
W_packageJson == <<"p", "a", "c", "k", "a", "g", "e", ".", "j", "s", "o", "n">>
W_packageLock == <<"p", "a", "c", "k", "a", "g", "e", "-", "l", "o", "c", "k", ".", "j", "s", "o", "n">>

\* createExtractor of javascript.ts: [threw, extractor], the extractor being
\* the state its closures capture.
jsCreateExtractor(jsonFiles) ==
    LET isConfig(f) == EndsWith(f.path, W_tsconfig) \/ EndsWith(f.path, W_jsconfig)
        isPackageJson(f) == EndsWith(f.path, W_packageJson)
        isPackageLock(f) == EndsWith(f.path, W_packageLock)
        built == buildDependencyMap(
                     groupPackageJsonAndLockFiles(SelectSeq(jsonFiles, isPackageJson),
                                                  SelectSeq(jsonFiles, isPackageLock)),
                     <<>>)
    IN  [threw |-> built.threw,
         extractor |->
            [family |-> "js",
             localAbsoluteImportPrefixes |->
                 extractLocalAbsoluteImportPrefixes(SelectSeq(jsonFiles, isConfig)),
             dependencyMap |-> built.depMap]]

\* dependencyMap.get(projectPath), the empty map when absent.
depMapOfProject(depMap, projectPath) ==
    LET I == {i \in DOMAIN depMap : depMap[i].projectPath = projectPath}
    IN  IF I = {} THEN <<>> ELSE depMap[CHOOSE i \in I : TRUE].map

\* The extractImports closure of the JS/TS extractor (javascript.ts:55-68).
jsExtractorExtractImports(extractor, filePath, repoPath, file) ==
    LET projectPath == findProjectPath(filePath, mapKeys(extractor.dependencyMap))
    IN  jsExtractImports(filePath, repoPath, projectPath,
            extractor.localAbsoluteImportPrefixes,
            projectPath \in Range(mapKeys(extractor.dependencyMap)),
            depMapOfProject(extractor.dependencyMap, projectPath), file)

-----------------------------------------------------------------------------
(* The dispatcher and the main loop: plugins/extractorDispatcher.ts, main.ts *)

javaExcludedDirectories == {<<".", "g", "r", "a", "d", "l", "e">>, <<".", "m", "v", "n">>}

javaExcludedFilePatterns ==
    {<<"*", ".", "i", "m", "l">>,
     <<"b", "u", "i", "l", "d", ".", "g", "r", "a", "d", "l", "e">>,
     <<"b", "u", "i", "l", "d", ".", "g", "r", "a", "d", "l", "e", ".", "k", "t", "s">>,
     <<"s", "e", "t", "t", "i", "n", "g", "s", ".", "g", "r", "a", "d", "l", "e">>,
     <<"s", "e", "t", "t", "i", "n", "g", "s", ".", "g", "r", "a", "d", "l", "e", ".", "k", "t", "s">>,
     <<"p", "o", "m", ".", "x", "m", "l">>,
     <<"*", ".", "i", "v", "y">>,
     <<"*", ".", "i", "v", "y", ".", "x", "m", "l">>,
     <<"*", "T", "e", "s", "t", ".", "j", "a", "v", "a">>,
     <<"*", ".", "t", "e", "s", "t", ".", "j", "a", "v", "a">>,
     <<"*", ".", "s", "p", "e", "c", ".", "j", "a", "v", "a">>}

javascriptExcludedDirectories ==
    {<<".", "n", "u", "x", "t">>,
     <<".", "s", "v", "e", "l", "t", "e", "-", "k", "i", "t">>,
     <<".", "s", "t", "o", "r", "y", "b", "o", "o", "k">>,
     <<".", "v", "e", "r", "c", "e", "l">>,
     <<".", "f", "i", "r", "e", "b", "a", "s", "e">>,
     <<"s", "t", "o", "r", "y", "b", "o", "o", "k", "-", "s", "t", "a", "t", "i", "c">>,
     <<".", "c", "a", "c", "h", "e">>,
     <<".", "o", "u", "t", "p", "u", "t">>,
     <<".", "v", "i", "t", "e">>,
     <<".", "a", "n", "g", "u", "l", "a", "r">>,
     <<".", "a", "s", "t", "r", "o">>}

javascriptExcludedFilePatterns ==
    {<<"*", ".", "t", "e", "s", "t", ".", "j", "s">>,
     <<"*", ".", "t", "e", "s", "t", ".", "t", "s">>,
     <<"*", ".", "t", "e", "s", "t", ".", "j", "s", "x">>,
     <<"*", ".", "t", "e", "s", "t", ".", "t", "s", "x">>,
     <<"*", ".", "s", "p", "e", "c", ".", "j", "s">>,
     <<"*", ".", "s", "p", "e", "c", ".", "t", "s">>,
     <<"*", ".", "s", "p", "e", "c", ".", "j", "s", "x">>,
     <<"*", ".", "s", "p", "e", "c", ".", "t", "s", "x">>,
     <<"*", ".", "d", ".", "t", "s">>,
     <<"*", ".", "m", "i", "n", ".", "j", "s">>,
     <<"w", "e", "b", "p", "a", "c", "k", ".", "c", "o", "n", "f", "i", "g", ".", "j", "s">>,
     <<"b", "a", "b", "e", "l", ".", "c", "o", "n", "f", "i", "g", ".", "j", "s">>,
     <<"t", "s", "c", "o", "n", "f", "i", "g", ".", "j", "s", "o", "n">>,
     <<".", "e", "s", "l", "i", "n", "t", "r", "c", ".", "j", "s">>,
     <<".", "e", "s", "l", "i", "n", "t", "r", "c", ".", "c", "j", "s">>,
     <<".", "p", "r", "e", "t", "t", "i", "e", "r", "r", "c", ".", "j", "s">>,
     <<"j", "e", "s", "t", ".", "c", "o", "n", "f", "i", "g", ".", "j", "s">>}

\* The extensions of the two plugins, builtinPlugins being
\* [javaScriptPlugin, javaPlugin].
javaScriptPluginExtensions == <<Ext_js, Ext_ts, Ext_jsx, Ext_tsx>>
javaPluginExtensions == <<Ext_java>>

\* path.extname of a file name with a dot inside it.
extname(p) == SliceFrom(basename(p), LastIndexOf(basename(p), "."))

\* The files of a plugin kept in the order of the walk, whatever their
\* extension.
filesInDiscoveryOrder(files, extensions) ==
    LET handled(f) == extname(f.path) \in Range(extensions)
    IN  SelectSeq(files, handled)

\* plugin.extensions.flatMap(ext => groupedFilesByExtensions.get(ext) ?? []):
\* the files of each extension in turn, each group in discovery order.
RECURSIVE filesOfExtensions(_, _)
filesOfExtensions(files, extensions) ==
    IF extensions = <<>> THEN <<>>
    ELSE LET hasExt(f) == extname(f.path) = Head(extensions)
         IN  SelectSeq(files, hasExt) \o filesOfExtensions(files, Tail(extensions))

\* groupFilesByExtractor: [threw, map], map being the sequence of the entries
\* [extractor, files] of the Map it returns. theRepo.files are the source
\* files found by the walk, in discovery order; theRepo.jsonFiles and
\* theRepo.javaProjects the .json files and the pom.xml files with what the
\* file system and the build tools answer for them.
groupFilesByExtractor(theRepo) ==
    LET jsFiles == filesOfExtensions(theRepo.files, javaScriptPluginExtensions)
        javaFiles == filesOfExtensions(theRepo.files, javaPluginExtensions)
        js == jsCreateExtractor(theRepo.jsonFiles)
    IN  IF jsFiles # <<>> /\ js.threw THEN [threw |-> TRUE, map |-> <<>>]
        ELSE [threw |-> FALSE,
              map |-> (IF jsFiles # <<>>
                       THEN <<[extractor |-> js.extractor, files |-> jsFiles]>>
                       ELSE <<>>)
                      \o (IF javaFiles # <<>>
                          THEN <<[extractor |-> javaCreateExtractor(theRepo.javaProjects),
                                  files |-> javaFiles]>>
                          ELSE <<>>)]

\* extractor.isIgnored(file)
extractorIsIgnored(extractor, filePath) ==
    IF extractor.family = "java"
    THEN isIgnored(filePath, javaExcludedDirectories, javaExcludedFilePatterns)
    ELSE isIgnored(filePath, javascriptExcludedDirectories,
                   javascriptExcludedFilePatterns)

\* extractor.extractImports(file, repoPath)
extractorExtractImports(extractor, file, repoPath) ==
    IF extractor.family = "java"
    THEN javaExtractorExtractImports(extractor, file.path, repoPath, file)
    ELSE jsExtractorExtractImports(extractor, file.path, repoPath, file)

NotWritten == [written |-> FALSE]
Written(content) == [written |-> TRUE, content |-> content]

-----------------------------------------------------------------------------
(* Specification SpecScope: findProjectPath applied to a file and a list of roots *)

MaxDepth == 2
MaxRoots == 3

\* Directory names; the second has the first as a proper string prefix.
ScopeSegments == {<<"a">>, <<"a", "b">>}

\* Absolute directories of depth 1..n.
RECURSIVE ScopeDirs(_)
ScopeDirs(n) ==
    IF n = 0 THEN {}
    ELSE {Slash \o g : g \in ScopeSegments}
         \cup {d \o Slash \o g : d \in ScopeDirs(n - 1), g \in ScopeSegments}

\* A source file directly inside a directory.
ScopeFiles == {d \o Slash \o <<"F">> : d \in ScopeDirs(MaxDepth)}

ScopeRootLists == DistinctSeqsUpTo(ScopeDirs(MaxDepth), MaxRoots)

\* The run of the engine is not part of the function specifications.
RunIdle ==
    /\ repo = Undefined
    /\ pc = "idle"
    /\ extractors = <<>>
    /\ ei = 0
    /\ fi = 0
    /\ importStatements = <<>>
    /\ returned = <<>>
    /\ output = NotWritten
    /\ exitCode = 0

InitScope ==
    /\ call \in [fn : {"findProjectPath"}, filePath : ScopeFiles,
                 projectPaths : ScopeRootLists]
    /\ ret = NoRet
    /\ RunIdle

ApplyFindProjectPath ==
    /\ call.fn = "findProjectPath"
    /\ ret = NoRet
    /\ ret' = Done(findProjectPath(call.filePath, call.projectPaths))
    /\ UNCHANGED <<call, runVars>>

NextScope == ApplyFindProjectPath

SpecScope == InitScope /\ [][NextScope]_vars

-----------------------------------------------------------------------------
(* Specification SpecFile: one call of a family's extractImports on one file *)

MaxImports == 2

P_repo == <<"/", "r">>
P_projA == <<"/", "r", "/", "a">>
F_java == <<"/", "r", "/", "a", "/", "X", ".", "j", "a", "v", "a">>
F_ts == <<"/", "r", "/", "a", "/", "x", ".", "t", "s">>

JM(importedClass, isStatic, isWildcard) ==
    [importedClass |-> importedClass, isStatic |-> isStatic, isWildcard |-> isWildcard]

\* The import statements a Java file is made of.
JavaMatches ==
    {JM(<<"F">>, FALSE, FALSE),          \* import F;
     JM(<<"F">>, FALSE, TRUE),           \* import F.*;
     JM(<<"F">>, TRUE, TRUE),            \* import static F.*;
     JM(<<"o", ".", "j", ".", "A">>, FALSE, FALSE),      \* import o.j.A;
     JM(<<"o", ".", "j", ".", "A">>, TRUE, TRUE),        \* import static o.j.A.*;
     JM(<<"o", ".", "j">>, FALSE, TRUE),         \* import o.j.*;
     JM(<<"o", ".", "M", ".", "w">>, TRUE, FALSE),       \* import static o.M.w;
     JM(<<"A", ".", "m">>, TRUE, FALSE),         \* import static A.m;
     JM(<<"j", "a", "v", "a", ".", "u", ".", "L">>, FALSE, FALSE),   \* import java.u.L;
     JM(<<"j", "a", "v", "a", ".", "u", ".", "L">>, TRUE, TRUE),     \* import static java.u.L.*;
     JM(<<"g", ".", "X">>, FALSE, FALSE),        \* import g.X;
     JM(<<"j", "a", "v", "a", "x", ".", "a", ".", "N">>, FALSE, FALSE)}   \* import javax.a.N;

JE(key, jar, entity) == [key |-> key, jar |-> jar, entity |-> entity]

\* The dependency indexes a Java project may have.
JavaIndexes ==
    {<<>>,
     <<JE(<<"o", ".", "j", ".", "A">>, <<"j", "u", "@", "5", ".", "1">>, <<"A">>)>>,
     <<JE(<<"j", "a", "v", "a", ".", "u", ".", "L">>, <<"j", "a", "v", "a", ".", "b", "a", "s", "e">>, <<"L">>),
       JE(<<"o", ".", "j", ".", "B">>, <<"j", "b">>, <<"B">>),
       JE(<<"o", ".", "j", ".", "A", ".", "N">>, <<"j", "n">>, <<"N">>),
       JE(<<"j", "a", "v", "a", "x", ".", "a", ".", "N">>, <<"j", "s", "r", "@", "3", ".", "0">>, <<"N">>)>>,
     <<JE(<<"o", ".", "j", ".", "s", ".", "C">>, <<"j", "d", "@", "1", ".", "0">>, <<"C">>),
       JE(<<"o", ".", "j", ".", "B">>, <<"j", "b">>, <<"B">>),
       JE(<<"o", ".", "M">>, <<"j", "m">>, <<"M">>)>>}

JavaGroupIdLists == {<<>>, <<<<"g">>>>, <<<<"h">>, <<"g">>>>}

JavaFiles == [readable : BOOLEAN, matches : SeqsUpTo(JavaMatches, MaxImports)]

JavaCalls ==
    [fn : {"javaExtractImports"}, filePath : {F_java}, repoPath : {P_repo},
     projectPath : {P_projA}, groupIds : JavaGroupIdLists, hasMap : BOOLEAN,
     importedClassToJarMap : JavaIndexes, file : JavaFiles]

JN(type, literal, value, specifiers, text) ==
    [type |-> type, literal |-> literal, value |-> value,
     specifiers |-> specifiers, text |-> text]

JSp(type, local, imported) == [type |-> type, local |-> local, imported |-> imported]

\* The import, require and import() nodes a JS/TS file is made of.
JsNodes ==
    {JN("ImportDeclaration", TRUE, <<"l">>,
        <<JSp("ImportDefaultSpecifier", <<"X">>, <<"X">>)>>, "import X from 'l'"),
     JN("ImportDeclaration", TRUE, <<"l", "/", "f", "p">>,
        <<JSp("ImportSpecifier", <<"m">>, <<"m", "a", "p">>), JSp("ImportSpecifier", <<"f">>, <<"f">>)>>,
        "import {map as m, f} from 'l/fp'"),
     JN("ImportDeclaration", TRUE, <<"z">>,
        <<JSp("ImportNamespaceSpecifier", <<"R">>, <<"R">>)>>, "import * as R from 'z'"),
     JN("ImportDeclaration", TRUE, <<"s", "r", "c", "/", "u">>, <<>>, "import 'src/u'"),
     JN("ImportDeclaration", TRUE, <<"s", "r", "c", "-", "u">>, <<>>, "import 'src-u'"),
     JN("CallExpression", TRUE, <<"f", "s">>, <<>>, "require('fs')"),
     JN("CallExpression", TRUE, <<"n", "o", "d", "e", ":", "f", "s">>, <<>>, "require('node:fs')"),
     JN("CallExpression", TRUE, <<".", "/", "x">>, <<>>, "require('./x')"),
     JN("CallExpression", FALSE, <<"z">>, <<>>, "require(`z`)"),
     JN("ImportExpression", TRUE, <<"@", "s", "/", "p", "/", "x">>, <<>>, "import('@s/p/x')")}

\* The dependency maps a JS/TS project may have.
JsDependencyMaps ==
    {<<>>,
     (<<"l">> :> <<"l", "@", "4", ".", "1">>),
     (<<"l">> :> <<"l", "@", "4", ".", "1">>)
        @@ (<<"@", "s", "/", "p">> :> <<"@", "s", "/", "p", "@", "2", ".", "0">>)}

JsPrefixSets == {{}, {<<"s", "r", "c">>}}

JsFiles == [readable : BOOLEAN, nodes : SeqsUpTo(JsNodes, MaxImports)]

JsCalls ==
    [fn : {"jsExtractImports"}, filePath : {F_ts}, repoPath : {P_repo},
     projectPath : {P_projA}, localAbsoluteImportPrefixes : JsPrefixSets,
     hasMap : BOOLEAN, dependencyMap : JsDependencyMaps, file : JsFiles]

InitFile ==
    /\ call \in JavaCalls \cup JsCalls
    /\ ret = NoRet
    /\ RunIdle

ApplyJavaExtractImports ==
    /\ call.fn = "javaExtractImports"
    /\ ret = NoRet
    /\ ret' = Done(javaExtractImports(call.filePath, call.repoPath, call.projectPath,
                                      call.groupIds, call.hasMap,
                                      call.importedClassToJarMap, call.file))
    /\ UNCHANGED <<call, runVars>>

ApplyJsExtractImports ==
    /\ call.fn = "jsExtractImports"
    /\ ret = NoRet
    /\ ret' = Done(jsExtractImports(call.filePath, call.repoPath, call.projectPath,
                                    call.localAbsoluteImportPrefixes, call.hasMap,
                                    call.dependencyMap, call.file))
    /\ UNCHANGED <<call, runVars>>

NextFile == ApplyJavaExtractImports \/ ApplyJsExtractImports

SpecFile == InitFile /\ [][NextFile]_vars

-----------------------------------------------------------------------------
(* Specification Spec: one run of the engine on a repository *)

MaxFiles == 2

D_a == <<"/", "r", "/", "a">>
D_b == <<"/", "r", "/", "b">>
D_w == <<"/", "r", "/", "w">>

\* A source file found by the walk: what reading it gives and the import
\* occurrences its text holds (matches for Java, nodes for JS/TS).
SourceFile(path, readable, matches, nodes) ==
    [path |-> path, readable |-> readable, matches |-> matches, nodes |-> nodes]

\* A Java project directory: absent, or a pom with what ls target and the
\* build tools answer.
JavaProject(dir, targetFiles, jdepsOk) ==
    [pomPath |-> dir \o Slash \o PomXml,
     pom |-> [readable |-> TRUE, content |-> <<[t |-> T_groupId, value |-> <<"g">>]>>],
     target |-> [ok |-> TRUE, files |-> targetFiles],
     tools |-> [classpath |-> TRUE, javaVersion |-> TRUE, jdeps |-> jdepsOk,
                jdepsTest |-> TRUE,
                lines |-> <<[sourceClass |-> <<"g", ".", "K">>,
                             importedClass |-> <<"o", ".", "j", ".", "A">>,
                             archive |-> <<"j", "u", "-", "5", ".", "1", ".", "j", "a", "r">>]>>,
                testLines |-> <<>>]]

JavaProjectOptions(dir) ==
    {<<>>,
     <<JavaProject(dir, <<<<"p", "-", "1", ".", "0", ".", "j", "a", "r">>>>, TRUE)>>,     \* analysed
     <<JavaProject(dir, <<>>, TRUE)>>,                \* no build artifact
     <<JavaProject(dir, <<<<"p", "-", "1", ".", "0", ".", "j", "a", "r">>>>, FALSE)>>}    \* the analyzer fails

JavaMatchesOfFile == <<JM(<<"o", ".", "j", ".", "A">>, FALSE, FALSE), JM(<<"F">>, FALSE, FALSE)>>

JavaFilePaths == {<<"/", "r", "/", "a", "/", "X", ".", "j", "a", "v", "a">>, <<"/", "r", "/", "b", "/", "Y", ".", "j", "a", "v", "a">>, <<"/", "r", "/", "c", "/", "Z", ".", "j", "a", "v", "a">>, <<"/", "r", "/", "a", "/", ".", "m", "v", "n", "/", "W", ".", "j", "a", "v", "a">>}

JavaSourceFiles ==
    {SourceFile(p, r, JavaMatchesOfFile, <<>>) : p \in JavaFilePaths, r \in BOOLEAN}

JsNodesOfFile ==
    <<JN("ImportDeclaration", TRUE, <<"l">>,
         <<JSp("ImportDefaultSpecifier", <<"X">>, <<"X">>)>>, "import X from 'l'"),
      JN("CallExpression", TRUE, <<"z">>, <<>>, "require('z')")>>

JsFilePaths == {<<"/", "r", "/", "w", "/", "x", ".", "t", "s">>, <<"/", "r", "/", "u", "/", "y", ".", "j", "s">>, <<"/", "r", "/", "w", "/", "w", "e", "b", "p", "a", "c", "k", ".", "c", "o", "n", "f", "i", "g", ".", "j", "s">>, <<"/", "r", "/", "w", "/", "x", ".", "d", ".", "t", "s">>}

JsSourceFiles ==
    {SourceFile(p, r, <<>>, JsNodesOfFile) : p \in JsFilePaths, r \in BOOLEAN}

\* The files of a walk: no path twice.
FileLists(S, n) ==
    {q \in SeqsUpTo(S, n) : \A i, j \in DOMAIN q : i # j => q[i].path # q[j].path}

JsonFile(path, readable, content) ==
    [path |-> path, readable |-> readable, content |-> content]

PackageJson(dir) == JsonFile(dir \o Slash \o W_packageJson, TRUE, [kind |-> "package"])

PackageLock(dir, readable, version, hasDependencies) ==
    JsonFile(dir \o Slash \o W_packageLock, readable,
             [kind |-> "lock", version |-> version, parses |-> TRUE,
              hasDependencies |-> hasDependencies,
              deps |-> IF hasDependencies
                       THEN <<[name |-> <<"l">>, version |-> <<"4", ".", "1">>]>>
                       ELSE <<>>])

JsProjectOptions(dir) ==
    {<<>>,
     <<PackageJson(dir), PackageLock(dir, TRUE, "v2", TRUE)>>,
     <<PackageJson(dir), PackageLock(dir, TRUE, "v1", FALSE)>>,
     <<PackageJson(dir), PackageLock(dir, FALSE, "v2", TRUE)>>}   \* unreadable lock file

TsConfigOptions ==
    {<<>>,
     <<JsonFile(<<"/", "r", "/", "t", "s", "c", "o", "n", "f", "i", "g", ".", "j", "s", "o", "n">>, TRUE,
                [kind |-> "config", hasPaths |-> TRUE, paths |-> <<<<"s", "r", "c", "/", "*">>>>,
                 baseUrl |-> <<".", "/">>])>>}

Repo(files, jsonFiles, javaProjects) ==
    [repoPath |-> P_repo, files |-> files, jsonFiles |-> jsonFiles,
     javaProjects |-> javaProjects]

\* Repositories whose Java side varies, with or without one JS/TS file of an
\* analysed package.
JavaRepos ==
    {Repo(js \o files, IF js = <<>> THEN <<>> ELSE <<PackageJson(D_w), PackageLock(D_w, TRUE, "v2", TRUE)>>, a \o b) :
        files \in FileLists(JavaSourceFiles, MaxFiles),
        js \in {<<>>, <<SourceFile(<<"/", "r", "/", "w", "/", "x", ".", "t", "s">>, TRUE, <<>>, JsNodesOfFile)>>},
        a \in JavaProjectOptions(D_a), b \in JavaProjectOptions(D_b)}

\* Repositories whose JS/TS side varies, with or without one Java file of an
\* analysed project.
JsRepos ==
    {Repo(files \o java, cfg \o pkg,
          IF java = <<>> THEN <<>> ELSE <<JavaProject(D_a, <<<<"p", "-", "1", ".", "0", ".", "j", "a", "r">>>>, TRUE)>>) :
        files \in FileLists(JsSourceFiles, MaxFiles),
        java \in {<<>>, <<SourceFile(<<"/", "r", "/", "a", "/", "X", ".", "j", "a", "v", "a">>, TRUE, JavaMatchesOfFile, <<>>)>>},
        cfg \in TsConfigOptions, pkg \in JsProjectOptions(D_w)}

Repos == JavaRepos \cup JsRepos

Init ==
    /\ call = [fn |-> "none"]
    /\ ret = NoRet
    /\ repo \in Repos
    /\ pc = "start"
    /\ extractors = <<>>
    /\ ei = 0
    /\ fi = 0
    /\ importStatements = <<>>
    /\ returned = <<>>
    /\ output = NotWritten
    /\ exitCode = 0

\* main.ts:9: groupFilesByExtractor; what it throws reaches the catch of the
\* IIFE (main.ts:49-55), which exits with status 1.
GroupFilesByExtractor ==
    /\ pc = "start"
    /\ LET grouped == groupFilesByExtractor(repo)
       IN  /\ extractors' = grouped.map
           /\ pc' = IF grouped.threw THEN "failed"
                    ELSE IF grouped.map = <<>> THEN "save" ELSE "loop"
           /\ exitCode' = IF grouped.threw THEN 1 ELSE 0
           /\ ei' = IF grouped.threw \/ grouped.map = <<>> THEN 0 ELSE 1
           /\ fi' = IF grouped.threw \/ grouped.map = <<>> THEN 0 ELSE 1
    /\ UNCHANGED <<call, ret, repo, importStatements, returned, output>>

\* The inner loop with an extractor that learns from the files it is given:
\* each file adds its directory to the project-level state of its family.
ExtractFileLearning ==
    /\ pc = "loop"
    /\ LET extractor == extractors[ei].extractor
           file == extractors[ei].files[fi]
           ignored == extractorIsIgnored(extractor, file.path)
           imports == extractorExtractImports(extractor, file, repo.repoPath)
           last == fi = Len(extractors[ei].files)
       IN  IF ignored
           THEN /\ UNCHANGED <<importStatements, returned, exitCode>>
                /\ pc' = IF last /\ ei = Len(extractors) THEN "save" ELSE "loop"
                /\ ei' = IF last /\ ei < Len(extractors) THEN ei + 1 ELSE ei
                /\ fi' = IF ~last THEN fi + 1
                         ELSE IF ei < Len(extractors) THEN 1 ELSE fi
           ELSE /\ returned' = Append(returned,
                                      [family |-> extractor.family, file |-> file,
                                       result |-> imports])
                /\ importStatements' = importStatements \o imports.statements
                /\ exitCode' = IF imports.threw THEN 1 ELSE 0
                /\ pc' = IF imports.threw THEN "failed"
                         ELSE IF last /\ ei = Len(extractors) THEN "save" ELSE "loop"
                /\ ei' = IF ~imports.threw /\ last /\ ei < Len(extractors)
                         THEN ei + 1 ELSE ei
                /\ fi' = IF imports.threw THEN fi
                         ELSE IF ~last THEN fi + 1
                         ELSE IF ei < Len(extractors) THEN 1 ELSE fi
    /\ extractors' =
          [extractors EXCEPT ![ei].extractor =
              IF @.family = "java"
              THEN [@ EXCEPT !.groupIds =
                       Append(@, dirname(extractors[ei].files[fi].path))]
              ELSE [@ EXCEPT !.localAbsoluteImportPrefixes =
                       @ \cup {dirname(extractors[ei].files[fi].path)}]]
    /\ UNCHANGED <<call, ret, repo, output>>

\* One iteration of the inner loop (main.ts:12-18): an ignored file is
\* skipped; otherwise the statements extractImports returns are pushed, and
\* what it throws reaches the catch of the IIFE, which exits with status 1.
ExtractFile ==
    /\ pc = "loop"
    /\ LET extractor == extractors[ei].extractor
           file == extractors[ei].files[fi]
           ignored == extractorIsIgnored(extractor, file.path)
           imports == extractorExtractImports(extractor, file, repo.repoPath)
           last == fi = Len(extractors[ei].files)
       IN  IF ignored
           THEN /\ UNCHANGED <<importStatements, returned, exitCode>>
                /\ pc' = IF last /\ ei = Len(extractors) THEN "save" ELSE "loop"
                /\ ei' = IF last /\ ei < Len(extractors) THEN ei + 1 ELSE ei
                /\ fi' = IF ~last THEN fi + 1
                         ELSE IF ei < Len(extractors) THEN 1 ELSE fi
           ELSE /\ returned' = Append(returned,
                                      [family |-> extractor.family, file |-> file,
                                       result |-> imports])
                /\ importStatements' = importStatements \o imports.statements
                /\ exitCode' = IF imports.threw THEN 1 ELSE 0
                /\ pc' = IF imports.threw THEN "failed"
                         ELSE IF last /\ ei = Len(extractors) THEN "save" ELSE "loop"
                /\ ei' = IF ~imports.threw /\ last /\ ei < Len(extractors)
                         THEN ei + 1 ELSE ei
                /\ fi' = IF imports.threw THEN fi
                         ELSE IF ~last THEN fi + 1
                         ELSE IF ei < Len(extractors) THEN 1 ELSE fi
    /\ UNCHANGED <<call, ret, repo, extractors, output>>

\* main.ts:47: saveImportsToJsonFile, which catches and logs a failure to
\* write (util.ts), so the run ends with status 0 either way.
SaveImports ==
    /\ pc = "save"
    /\ \E writable \in BOOLEAN :
          output' = IF writable THEN Written(importStatements) ELSE NotWritten
    /\ pc' = "done"
    /\ UNCHANGED <<call, ret, repo, extractors, ei, fi, importStatements,
                   returned, exitCode>>

Next == GroupFilesByExtractor \/ ExtractFile \/ SaveImports

Spec == Init /\ [][Next]_vars

-----------------------------------------------------------------------------
(* Specification SpecManifest: the manifest analysis of one Java project *)

MaxPomElements == 3
MaxLines == 2

T_dependencyOpen == "<dependency>"
T_dependencyClose == "</dependency>"

PomTag(t) == [t |-> t, value |-> Empty]
PomGroupId(value) == [t |-> T_groupId, value |-> value]

\* The elements a pom is made of: its parent block, its own group id, and a
\* dependency, each declaring a group id of its own.
PomParentBlock == <<PomTag(T_parentOpen), PomGroupId(<<"p", ".", "b">>), PomTag(T_parentClose)>>
PomOwnGroupId == <<PomGroupId(<<"g">>)>>
PomDependency == <<PomTag(T_dependencyOpen), PomGroupId(<<"d", ".", "x">>), PomTag(T_dependencyClose)>>

PomElements == {PomParentBlock, PomOwnGroupId, PomDependency}

\* The contents of a pom: its elements in any order, the parent block and the
\* project's own group id at most once.
PomContents ==
    {Flatten(q) : q \in {q \in SeqsUpTo(PomElements, MaxPomElements) :
        \A i, j \in DOMAIN q :
            (i # j /\ q[i] = q[j]) => q[i] = PomDependency}}

Poms == [readable : BOOLEAN, content : PomContents]

\* The lines of a dependency report: sourceClass -> importedClass archive.
ReportLine(sourceClass, importedClass, archive) ==
    [sourceClass |-> sourceClass, importedClass |-> importedClass, archive |-> archive]

ReportLines ==
    {ReportLine(<<"g", ".", "K">>, <<"o", ".", "j", ".", "A">>, <<"j", "u", "-", "5", ".", "1", ".", "j", "a", "r">>),     \* the project uses a library
     ReportLine(<<"g", ".", "K">>, <<"g", ".", "L">>, <<"p", "-", "1", ".", "0", ".", "j", "a", "r">>),        \* the project uses itself
     ReportLine(<<"x", ".", "K">>, <<"o", ".", "j", ".", "B">>, <<"j", "b", "-", "2", ".", "0", ".", "j", "a", "r">>),     \* a class outside the group
     ReportLine(<<"g", ".", "K">>, <<"j", "a", "v", "a", ".", "u", ".", "L">>, <<"j", "a", "v", "a", ".", "b", "a", "s", "e">>)}   \* the project uses the platform

\* One project: its pom, the files of its target directory, whether jdeps on
\* target/test-classes succeeds, and the two reports.
ManifestProjects ==
    {[pomPath |-> D_a \o Slash \o PomXml,
      pom |-> [readable |-> TRUE, content |-> content],
      target |-> [ok |-> TRUE, files |-> files],
      tools |-> [classpath |-> TRUE, javaVersion |-> TRUE, jdeps |-> TRUE,
                 jdepsTest |-> jdepsTest, lines |-> lines,
                 testLines |-> IF jdepsTest THEN testLines ELSE <<>>]] :
        content \in {<<>>, PomOwnGroupId},
        files \in {<<>>, <<<<"p", "-", "1", ".", "0", ".", "j", "a", "r">>>>, <<<<"p", "-", "1", ".", "0", "-", "s", "o", "u", "r", "c", "e", "s", ".", "j", "a", "r">>, <<"p", "-", "1", ".", "0", ".", "j", "a", "r">>>>},
        jdepsTest \in BOOLEAN,
        lines \in SeqsUpTo(ReportLines, MaxLines),
        testLines \in {<<>>, <<ReportLine(<<"g", ".", "T">>, <<"o", ".", "t", ".", "U">>, <<"t", "u", "-", "1", ".", "2", ".", "j", "a", "r">>)>>}}

MaxXmlFiles == 3

\* The .xml files a walk may find: poms at several depths and one other file.
XmlFilePaths ==
    {<<"/", "r", "/", "p", "o", "m", ".", "x", "m", "l">>, <<"/", "r", "/", "a", "/", "p", "o", "m", ".", "x", "m", "l">>, <<"/", "r", "/", "a", "/", "b", "/", "p", "o", "m", ".", "x", "m", "l">>,
     <<"/", "r", "/", "c", "/", "p", "o", "m", ".", "x", "m", "l">>, <<"/", "r", "/", "c", "/", "d", "/", "e", "/", "p", "o", "m", ".", "x", "m", "l">>, <<"/", "r", "/", "a", "/", "w", "e", "b", ".", "x", "m", "l">>}

XmlFileLists == DistinctSeqsUpTo(XmlFilePaths, MaxXmlFiles)

\* The archive tokens of report lines: names with and without .jar, with no,
\* one or two version-like segments.
ReportArchives ==
    {<<"n">>, <<"n", ".", "j", "a", "r">>, <<"n", "-", "1", ".", "2", ".", "3">>, <<"n", "-", "1", ".", "2", ".", "3", ".", "j", "a", "r">>, <<"n", "-", "1", ".", "j", "a", "r">>,
     <<"n", "-", "x", "-", "1", ".", "0", ".", "j", "a", "r">>, <<"n", "-", "1", ".", "0", "-", "j", "r", "e", ".", "j", "a", "r">>, <<"n", "-", "1", ".", "0", "-", "2", ".", "0", ".", "j", "a", "r">>,
     <<"n", "-", "2", "-", "1", ".", "0", ".", "j", "a", "r">>, <<"n", "-", "x", ".", "j", "a", "r">>}

ManifestCalls ==
    [fn : {"findGroupId"}, pom : Poms]
    \cup [fn : {"generateImportedClassToJarMaps"}, project : ManifestProjects]
    \cup [fn : {"findRootPomXmlPathsFromFiles"}, xmlFilePaths : XmlFileLists]
    \cup [fn : {"indexReportLines"}, archive : ReportArchives]

InitManifest ==
    /\ call \in ManifestCalls
    /\ ret = NoRet
    /\ RunIdle

ApplyFindGroupId ==
    /\ call.fn = "findGroupId"
    /\ ret = NoRet
    /\ ret' = Done(findGroupId(call.pom))
    /\ UNCHANGED <<call, runVars>>

ApplyGenerateImportedClassToJarMaps ==
    /\ call.fn = "generateImportedClassToJarMaps"
    /\ ret = NoRet
    /\ ret' = Done(generateImportedClassToJarMaps(<<call.project>>, <<>>))
    /\ UNCHANGED <<call, runVars>>

ApplyFindRootPomXmlPathsFromFiles ==
    /\ call.fn = "findRootPomXmlPathsFromFiles"
    /\ ret = NoRet
    /\ ret' = Done(findRootPomXmlPathsFromFiles(call.xmlFilePaths))
    /\ UNCHANGED <<call, runVars>>

\* The loop over the report lines (java.ts:344-367) for a report of one line
\* g.K -> o.j.A archive, in a project without a group id whose artifact is
\* p-1.0.jar.
ApplyIndexReportLines ==
    /\ call.fn = "indexReportLines"
    /\ ret = NoRet
    /\ ret' = Done(indexReportLines(
                       <<ReportLine(<<"g", ".", "K">>, <<"o", ".", "j", ".", "A">>, call.archive)>>,
                       Empty, <<"p", "-", "1", ".", "0", ".", "j", "a", "r">>, <<>>))
    /\ UNCHANGED <<call, runVars>>

NextManifest ==
    \/ ApplyFindGroupId
    \/ ApplyGenerateImportedClassToJarMaps
    \/ ApplyFindRootPomXmlPathsFromFiles
    \/ ApplyIndexReportLines

SpecManifest == InitManifest /\ [][NextManifest]_vars

-----------------------------------------------------------------------------
(* Specification SpecResolve: JS/TS library resolution and the platform test *)

MaxSegments == 3

ResolveSegments == {<<"l">>, <<"f">>, <<"@", "s">>}

\* Specifiers of one to MaxSegments segments.
ResolveSpecifiers ==
    {Join(q, Slash) : q \in SeqsUpTo(ResolveSegments, MaxSegments) \ {<<>>}}

ResolveKeys == {<<"l">>, <<"l", "/", "f">>, <<"@", "s", "/", "l">>, <<"@", "s">>}

\* The dependency indexes of a project: some of the keys, each with its
\* name@version.
ResolveDependencyMaps ==
    {[k \in K |-> k \o <<"@", "1", ".", "0">>] : K \in SUBSET ResolveKeys}

\* Specifiers handed to isNodeModule, none starting with node: .
PlatformSpecifiers ==
    nodeModules \cup ResolveSpecifiers \cup {<<"n", "o", "d", "e">>, <<"n", "o", "d", "e", "/", "f", "s">>, <<":", "f", "s">>, Empty}

\* A path-alias configuration file: what reading it gives, its paths keys
\* (hasPaths: compilerOptions.paths is present) and its baseUrl ('' when absent).
AliasConfig(path, readable, hasPaths, paths, baseUrl) ==
    JsonFile(path, readable,
             [kind |-> "config", hasPaths |-> hasPaths, paths |-> paths,
              baseUrl |-> baseUrl])

AliasConfigContents ==
    {[hasPaths |-> TRUE, paths |-> <<<<"s", "r", "c", "/", "*">>>>, baseUrl |-> Empty],
     [hasPaths |-> TRUE, paths |-> <<<<"@", "/", "*">>, <<"l", "i", "b">>>>, baseUrl |-> <<".", "/">>],
     [hasPaths |-> TRUE, paths |-> <<>>, baseUrl |-> <<"s", "r", "c">>],
     [hasPaths |-> FALSE, paths |-> <<>>, baseUrl |-> <<".", "/", "s", "r", "c", "/">>],
     [hasPaths |-> FALSE, paths |-> <<>>, baseUrl |-> <<".", "/">>],
     [hasPaths |-> FALSE, paths |-> <<>>, baseUrl |-> Empty]}

AliasConfigsAt(path) ==
    {AliasConfig(path, r, c.hasPaths, c.paths, c.baseUrl) :
        r \in BOOLEAN, c \in AliasConfigContents}

\* The configuration files of a repository: none, the one of /r/w, the one
\* of /r/u, or both in either order.
AliasConfigLists ==
    LET W == AliasConfigsAt(<<"/", "r", "/", "w", "/", "t", "s", "c", "o", "n", "f", "i", "g", ".", "j", "s", "o", "n">>)
        U == AliasConfigsAt(<<"/", "r", "/", "u", "/", "j", "s", "c", "o", "n", "f", "i", "g", ".", "j", "s", "o", "n">>)
    IN  {<<>>} \cup {<<w>> : w \in W} \cup {<<u>> : u \in U}
        \cup {<<w, u>> : w \in W, u \in U} \cup {<<u, w>> : w \in W, u \in U}

LocalSpecifiers ==
    {<<"s", "r", "c">>, <<"s", "r", "c", "/", "a">>, <<"s", "r", "c", "-", "u", "t", "i", "l", "s">>, <<"s", "r", "c", "s", "/", "a">>,
     <<".", "/", "a">>, <<".", ".", "/", "a">>, <<"/", "a">>, <<".", "a">>, <<".", ".">>,
     <<"@">>, <<"@", "/", "x">>, <<"l", "i", "b">>, <<"l", "i", "b", "s">>, <<"l">>}

ResolveCalls ==
    [fn : {"jsLibrary"}, value : ResolveSpecifiers, dependencyMap : ResolveDependencyMaps]
    \cup [fn : {"isNodeModule"}, importPath : PlatformSpecifiers]
    \cup [fn : {"extractLocalAbsoluteImportPrefixes"}, configs : AliasConfigLists]
    \cup [fn : {"jsIsLocalImport"}, importPath : LocalSpecifiers, configs : AliasConfigLists]

InitResolve ==
    /\ call \in ResolveCalls
    /\ ret = NoRet
    /\ RunIdle

\* javascript.ts:118-120
ApplyJsLibrary ==
    /\ call.fn = "jsLibrary"
    /\ ret = NoRet
    /\ ret' = Done(jsLibrary(call.value, call.dependencyMap))
    /\ UNCHANGED <<call, runVars>>

\* isNodeModule on a specifier and on the specifier with the node: prefix, and
\* the statements of a file that requires both.
ApplyIsNodeModule ==
    /\ call.fn = "isNodeModule"
    /\ ret = NoRet
    /\ ret' = Done([plain |-> isNodeModule(call.importPath),
                    prefixed |-> isNodeModule(NodePrefix \o call.importPath),
                    statements |->
                        jsStatements(
                            <<JN("CallExpression", TRUE, call.importPath, <<>>, "require(s)"),
                              JN("ImportDeclaration", TRUE, NodePrefix \o call.importPath,
                                 <<>>, "import 'node:s'")>>,
                            <<"a", "/", "x", ".", "t", "s">>, L_TypeScript, P_projA, {}, <<>>)])
    /\ UNCHANGED <<call, runVars>>

\* extractLocalAbsoluteImportPrefixes over the configuration files of a
\* repository (javascript.ts:29-34).
ApplyExtractLocalAbsoluteImportPrefixes ==
    /\ call.fn = "extractLocalAbsoluteImportPrefixes"
    /\ ret = NoRet
    /\ ret' = Done(extractLocalAbsoluteImportPrefixes(call.configs))
    /\ UNCHANGED <<call, runVars>>

\* isLocalImport on a specifier with the prefixes createExtractor derives
\* from the configuration files, and the statements of a file of /r/w that
\* requires the specifier.
ApplyJsIsLocalImport ==
    /\ call.fn = "jsIsLocalImport"
    /\ ret = NoRet
    /\ LET prefixes == jsCreateExtractor(call.configs).extractor.localAbsoluteImportPrefixes
       IN  ret' = Done([prefixes |-> prefixes,
                        local |-> jsIsLocalImport(call.importPath, prefixes),
                        statements |->
                            jsStatements(
                                <<JN("CallExpression", TRUE, call.importPath, <<>>, "require(s)")>>,
                                <<"w", "/", "x", ".", "t", "s">>, L_TypeScript, D_w, prefixes, <<>>)])
    /\ UNCHANGED <<call, runVars>>

NextResolve ==
    \/ ApplyJsLibrary
    \/ ApplyIsNodeModule
    \/ ApplyExtractLocalAbsoluteImportPrefixes
    \/ ApplyJsIsLocalImport

SpecResolve == InitResolve /\ [][NextResolve]_vars

-----------------------------------------------------------------------------
(* Specification SpecTools: generateImportedClassToJarMaps, one external
   command at a time *)

MaxProjects == 2

\* The directory of the i-th root project.
ToolProjectDir(i) == <<"/", "r", "/", "p">> \o <<<<"1", "2", "3", "4", "5", "6", "7", "8", "9">>[i]>>

\* What the commands answer for a project: no artifact in target, every
\* command succeeding, or one of the four commands of the try block failing.
ToolOutcomes ==
    {[jar |-> FALSE, classpath |-> TRUE, javaVersion |-> TRUE, jdeps |-> TRUE, jdepsTest |-> TRUE],
     [jar |-> TRUE, classpath |-> TRUE, javaVersion |-> TRUE, jdeps |-> TRUE, jdepsTest |-> TRUE],
     [jar |-> TRUE, classpath |-> FALSE, javaVersion |-> TRUE, jdeps |-> TRUE, jdepsTest |-> TRUE],
     [jar |-> TRUE, classpath |-> TRUE, javaVersion |-> FALSE, jdeps |-> TRUE, jdepsTest |-> TRUE],
     [jar |-> TRUE, classpath |-> TRUE, javaVersion |-> TRUE, jdeps |-> FALSE, jdepsTest |-> TRUE],
     [jar |-> TRUE, classpath |-> TRUE, javaVersion |-> TRUE, jdeps |-> TRUE, jdepsTest |-> FALSE]}

ToolProject(i, o) ==
    [pomPath |-> ToolProjectDir(i) \o Slash \o PomXml,
     pom |-> [readable |-> TRUE, content |-> PomOwnGroupId],
     target |-> [ok |-> TRUE, files |-> IF o.jar THEN <<<<"p", "-", "1", ".", "0", ".", "j", "a", "r">>>> ELSE <<>>],
     tools |-> [classpath |-> o.classpath, javaVersion |-> o.javaVersion,
                jdeps |-> o.jdeps, jdepsTest |-> o.jdepsTest,
                lines |-> <<ReportLine(<<"g", ".", "K">>, <<"o", ".", "j", ".", "A">>, <<"j", "u", "-", "5", ".", "1", ".", "j", "a", "r">>)>>,
                testLines |-> <<>>]]

ToolProjectLists ==
    {[i \in DOMAIN q |-> ToolProject(i, q[i])] : q \in SeqsUpTo(ToolOutcomes, MaxProjects)}

\* Before the loop: the first project, no command run and no index yet.
InitTools ==
    /\ call \in [fn : {"generateImportedClassToJarMaps"}, projects : ToolProjectLists]
    /\ ret = IF call.projects = <<>> THEN Done(<<>>) ELSE [done |-> FALSE, value |-> <<>>]
    /\ pc = IF call.projects = <<>> THEN "done" ELSE "ls"
    /\ ei = IF call.projects = <<>> THEN 0 ELSE 1
    /\ returned = <<>>
    /\ repo = Undefined
    /\ extractors = <<>>
    /\ fi = 0
    /\ importStatements = <<>>
    /\ output = NotWritten
    /\ exitCode = 0

\* The next iteration of the loop over the pom paths, or the return of the
\* Map by project.
NextProject(byProject) ==
    IF ei < Len(call.projects)
    THEN /\ ei' = ei + 1
         /\ pc' = "ls"
         /\ ret' = [done |-> FALSE, value |-> byProject]
    ELSE /\ ei' = ei
         /\ pc' = "done"
         /\ ret' = Done(byProject)

\* One execSync of the loop body: the command is run, and what it answers
\* decides what runs next. returned records the commands run, in order.
RunTool(step, ok) ==
    /\ pc = step
    /\ returned' = Append(returned,
                          [projectPath |-> dirname(call.projects[ei].pomPath),
                           tool |-> step, ok |-> ok])
    /\ IF afterTool(step, ok) = "continue"
       THEN NextProject(ret.value)
       ELSE /\ pc' = afterTool(step, ok)
            /\ UNCHANGED <<ei, ret>>
    /\ UNCHANGED <<call, repo, extractors, fi, importStatements, output, exitCode>>

\* findProjectJar: ls of the target directory (java.ts:387-406).
RunLsTarget == RunTool("ls", findProjectJar(call.projects[ei].target) # Empty)

\* mvn dependency:build-classpath (java.ts:304-307).
RunBuildClasspath == RunTool("mvn", call.projects[ei].tools.classpath)

\* getJavaMajorVersion: java -version (java.ts:310, 373-385).
RunGetJavaMajorVersion == RunTool("javaVersion", call.projects[ei].tools.javaVersion)

\* jdeps on the artifact (java.ts:318-320).
RunJdeps == RunTool("jdeps", call.projects[ei].tools.jdeps)

\* jdeps on target/test-classes (java.ts:328-330).
RunJdepsTest == RunTool("jdepsTest", call.projects[ei].tools.jdepsTest)

\* The report is parsed and the index of the project stored (java.ts:340-368).
ParseReport ==
    /\ pc = "parse"
    /\ LET project == call.projects[ei]
       IN  NextProject(Append(ret.value,
               [projectPath |-> dirname(project.pomPath),
                map |-> indexReportLines(project.tools.lines \o project.tools.testLines,
                            findGroupId(project.pom), findProjectJar(project.target),
                            <<>>)]))
    /\ UNCHANGED <<call, repo, extractors, fi, importStatements, returned, output,
                   exitCode>>

NextTools ==
    \/ RunLsTarget
    \/ RunBuildClasspath
    \/ RunGetJavaMajorVersion
    \/ RunJdeps
    \/ RunJdepsTest
    \/ ParseReport

SpecTools == InitTools /\ [][NextTools]_vars

-----------------------------------------------------------------------------
(* Claims about project scoping *)

\* root is an ancestor directory of path: path continues with a separator.
IsAncestorDir(root, path) == StartsWith(path, root \o Slash)

\* The orderings of a sequence.
Orderings(q) ==
    {p \in [DOMAIN q -> Range(q)] : \A i, j \in DOMAIN q : i # j => p[i] # p[j]}

\* C3: when two roots of the list both enclose the file and one is a strict
\* prefix of the other, findProjectPath never answers the shallower one, its
\* answer is at least as deep as the deeper one (it is the deeper one when the
\* list holds just these two), and it is the same for every order of the list.
C3_DeeperRootWins ==
    (call.fn = "findProjectPath" /\ ret.done) =>
        \A i, j \in DOMAIN call.projectPaths :
            LET r1 == call.projectPaths[i]
                r2 == call.projectPaths[j]
            IN  (/\ IsAncestorDir(r1, call.filePath)
                 /\ IsAncestorDir(r2, call.filePath)
                 /\ StartsWith(r2, r1) /\ r1 # r2)
                => /\ ret.value # r1
                   /\ Len(ret.value) >= Len(r2)
                   /\ (Len(call.projectPaths) = 2 => ret.value = r2)
                   /\ \A p \in Orderings(call.projectPaths) :
                          findProjectPath(call.filePath, p) = ret.value

\* C3 witness: a shallower root listed after the deeper one, the deeper one returned.
C3_Witness ==
    /\ call.fn = "findProjectPath" /\ ret.done
    /\ Len(call.projectPaths) = 2
    /\ IsAncestorDir(call.projectPaths[1], call.filePath)
    /\ IsAncestorDir(call.projectPaths[2], call.filePath)
    /\ StartsWith(call.projectPaths[1], call.projectPaths[2])
    /\ call.projectPaths[1] # call.projectPaths[2]
    /\ ret.value = call.projectPaths[1]

\* C4: findProjectPath only returns a root that is an ancestor directory of
\* the file, and the empty string when no root is one.
C4_OnlyAncestorRoots ==
    (call.fn = "findProjectPath" /\ ret.done) =>
        IF \E i \in DOMAIN call.projectPaths :
               IsAncestorDir(call.projectPaths[i], call.filePath)
        THEN ret.value # Empty /\ IsAncestorDir(ret.value, call.filePath)
        ELSE ret.value = Empty


-----------------------------------------------------------------------------
(* Claims about one call of extractImports, under SpecFile *)

IsJavaCall == call.fn = "javaExtractImports"
IsJsCall == call.fn = "jsExtractImports"
IsFileCall == IsJavaCall \/ IsJsCall

\* C1: in every statement either family's extractImports returns, library is
\* a non-empty string.
C1_LibraryNeverEmpty ==
    (IsFileCall /\ ret.done) =>
        \A i \in DOMAIN ret.value.statements :
            ret.value.statements[i].library # Empty

\* The occurrences of the file of the call that are neither local nor
\* platform imports. The Java platform filter reads the resolved library
\* (java.ts:83), the JS/TS one the specifier (javascript.ts:116).
PassingOccurrences ==
    IF IsJavaCall
    THEN {i \in DOMAIN call.file.matches :
            LET m == call.file.matches[i]
            IN  /\ ~isLocalImport(m.importedClass, call.groupIds)
                /\ ~isJdkModule(getLibraryAndImportedEntity(m.importedClass,
                        m.isStatic, m.isWildcard, call.importedClassToJarMap).library)}
    ELSE {i \in DOMAIN call.file.nodes :
            LET n == call.file.nodes[i]
            IN  /\ n.literal
                /\ ~jsIsLocalImport(n.value, call.localAbsoluteImportPrefixes)
                /\ ~isNodeModule(n.value)}

NoIndexMatch(packageToJarMap, target) ==
    \A i \in DOMAIN packageToJarMap :
        /\ packageToJarMap[i].key # target
        /\ ~StartsWith(packageToJarMap[i].key, target \o Dot)

\* C10: a static wildcard import of P.C with no matching index entry is emitted
\* with library P, importedEntity "C.*" and modifiers [static, wildcard]; it is
\* emitted unless P.C is local or P lies in the platform namespaces.
C10_StaticWildcardFallback ==
    (IsJavaCall /\ ret.done /\ ~ret.value.threw /\ call.file.readable) =>
        \A i \in DOMAIN call.file.matches :
            LET m == call.file.matches[i]
                parts == Split(m.importedClass, ".")
                P == Join(SubSeq(parts, 1, Len(parts) - 1), Dot)
                C == parts[Len(parts)]
                ofM == {k \in DOMAIN ret.value.statements :
                          ret.value.statements[k].fullImport = javaFullImport(m)}
            IN  (/\ m.isStatic /\ m.isWildcard /\ Len(parts) >= 2
                 /\ NoIndexMatch(call.importedClassToJarMap, m.importedClass))
                => /\ \A k \in ofM :
                        /\ ret.value.statements[k].library = P
                        /\ ret.value.statements[k].importedEntity = C \o DotStar
                        /\ ret.value.statements[k].modifiers = <<"static", "wildcard">>
                   /\ (~isLocalImport(m.importedClass, call.groupIds) /\ ~isJdkModule(P))
                        => ofM # {}

\* C10 witness: import static o.j.A.*; emitted from the fallback.
C10_Witness ==
    /\ IsJavaCall /\ ret.done
    /\ NoIndexMatch(call.importedClassToJarMap, <<"o", ".", "j", ".", "A">>)
    /\ \E k \in DOMAIN ret.value.statements :
          /\ ret.value.statements[k].library = <<"o", ".", "j">>
          /\ ret.value.statements[k].importedEntity = <<"A", ".", "*">>
          /\ ret.value.statements[k].modifiers = <<"static", "wildcard">>

-----------------------------------------------------------------------------
(* Claims about a run of the engine, under Spec *)

\* The extractor of a family, as groupFilesByExtractor created it.
ExtractorOf(family) ==
    extractors[CHOOSE i \in DOMAIN extractors :
                   extractors[i].extractor.family = family].extractor

\* The project roots that have an index: the keys of the family's Map.
IndexedRoots(family) ==
    IF family = "java" THEN mapKeys(ExtractorOf(family).importedClassToJarMaps)
    ELSE mapKeys(ExtractorOf(family).dependencyMap)

\* The scoper finds no indexed root for the file of a recorded call.
Ownerless(r) ==
    findProjectPath(r.file.path, IndexedRoots(r.family))
        \notin Range(IndexedRoots(r.family))

\* The root Java projects of the repository whose manifest analysis fails:
\* no build artifact, or one of the tools fails.
FailedJavaProjects ==
    {p \in Range(repo.javaProjects) :
        /\ p.pomPath \in Range(findRootPomXmlPathsFromFiles(
                                  [i \in DOMAIN repo.javaProjects |->
                                      repo.javaProjects[i].pomPath]))
        /\ (findProjectJar(p.target) = Empty \/ ~toolsSucceed(p.tools))}

InFailedJavaProject(filePath) ==
    \E p \in FailedJavaProjects : IsAncestorDir(dirname(p.pomPath), filePath)

\* C5: when the manifest analysis of a Java project fails, each Java file of
\* that project handed to extractImports is still processed (the call
\* returns, nothing is thrown) and the run is not halted by it.
C5_FailedProjectDoesNotHalt ==
    \A k \in DOMAIN returned :
        (returned[k].family = "java" /\ InFailedJavaProject(returned[k].file.path))
            => (~returned[k].result.threw /\ pc # "failed" /\ exitCode = 0)

\* C6: a JS/TS file for which findProjectPath returns none is tolerated: the
\* call of extractImports returns and the run goes on.
C6_OwnerlessJsFileTolerated ==
    \A k \in DOMAIN returned :
        (returned[k].family = "js"
         /\ findProjectPath(returned[k].file.path, IndexedRoots("js")) = Empty)
            => (~returned[k].result.threw /\ pc # "failed" /\ exitCode = 0)

\* C7: a Java file for which the scoper finds no project with a dependency
\* index makes extractImports throw, readable or not; no later file is
\* processed, the run has failed with exit status 1, and the output is not
\* written, in that state and in every state after it.
C7_OwnerlessJavaFileIsFatal ==
    /\ \A k \in DOMAIN returned :
          (returned[k].family = "java" /\ Ownerless(returned[k]))
            => /\ returned[k].result = Threw
               /\ k = Len(returned)
               /\ pc = "failed"
               /\ exitCode = 1
    /\ pc = "failed" => (output = NotWritten /\ exitCode = 1)

\* C7 witness: an ownerless readable Java file has ended a run in which
\* statements of an earlier file had been collected, and nothing is written.
C7_Witness ==
    /\ pc = "failed"
    /\ returned # <<>>
    /\ returned[Len(returned)].family = "java"
    /\ returned[Len(returned)].file.readable
    /\ Ownerless(returned[Len(returned)])
    /\ importStatements # <<>>
    /\ output = NotWritten

\* The files the main loop hands to extractImports: those of each extractor
\* in turn that its isIgnored does not skip.
RECURSIVE FilesToExtract(_)
FilesToExtract(groups) ==
    IF groups = <<>> THEN <<>>
    ELSE LET kept(f) == ~extractorIsIgnored(Head(groups).extractor, f.path)
         IN  SelectSeq(Head(groups).files, kept) \o FilesToExtract(Tail(groups))

RECURSIVE StatementsOf(_)
StatementsOf(records) ==
    IF records = <<>> THEN <<>>
    ELSE Head(records).result.statements \o StatementsOf(Tail(records))

\* C8: a file with an owning indexed project that cannot be read or parsed
\* gives the empty list and nothing is thrown; the loop is ended early only
\* by a call that threw; once the loop is over every file to extract has been
\* processed, in order; and the aggregate is exactly the concatenation of
\* what the calls returned.
C8_UnreadableFileCaughtAlone ==
    /\ \A k \in DOMAIN returned :
          (~Ownerless(returned[k]) /\ ~returned[k].file.readable)
            => returned[k].result = Returned(<<>>)
    /\ \A k \in DOMAIN returned :
          returned[k].result.threw => (k = Len(returned) /\ pc = "failed")
    /\ (pc = "failed" /\ returned # <<>>) => returned[Len(returned)].result.threw
    /\ Len(returned) <= Len(FilesToExtract(extractors))
    /\ \A k \in DOMAIN returned : returned[k].file = FilesToExtract(extractors)[k]
    /\ pc \in {"save", "done"} => Len(returned) = Len(FilesToExtract(extractors))
    /\ importStatements = StatementsOf(returned)

\* C8 witness: a run that completed after an unreadable owned Java file gave
\* nothing and a later file gave statements.
C8_Witness ==
    /\ pc = "done"
    /\ \E k \in DOMAIN returned :
          /\ returned[k].family = "java"
          /\ ~returned[k].file.readable
          /\ ~Ownerless(returned[k])
          /\ k < Len(returned)
          /\ returned[k + 1].result.statements # <<>>
    /\ output = Written(importStatements)

-----------------------------------------------------------------------------
(* Claims about the manifest analysis of a Java project, under SpecManifest *)

\* The nesting depth of the element at position i of a pom: the number of
\* parent and dependency blocks open there.
PomDepth(content, i) ==
    Cardinality({j \in 1..(i - 1) : content[j].t \in {T_parentOpen, T_dependencyOpen}})
    - Cardinality({j \in 1..(i - 1) : content[j].t \in {T_parentClose, T_dependencyClose}})

\* The group id the pom declares for the project itself, outside any block;
\* the empty string when it declares none.
OwnGroupId(content) ==
    LET I == {i \in DOMAIN content :
                 content[i].t = T_groupId /\ PomDepth(content, i) = 0}
    IN  IF I = {} THEN Empty ELSE content[CHOOSE i \in I : TRUE].value

\* C11: findGroupId returns the group id the pom declares for the project
\* itself, and none when the pom declares none outside its blocks: never the
\* group id of the parent block or of a dependency.
C11_OwnGroupIdOnly ==
    (call.fn = "findGroupId" /\ ret.done /\ call.pom.readable) =>
        ret.value = OwnGroupId(call.pom.content)

-----------------------------------------------------------------------------
(* Claims about JS/TS resolution, under SpecResolve *)

\* The candidates of a specifier: the scoped-package form of its first two
\* segments and every segment prefix of it.
CandidateSet(value) ==
    LET parts == Split(value, "/")
    IN  {Join(SubSeq(parts, 1, i), Slash) : i \in 1..Len(parts)}
        \cup (IF value[1] = "@" /\ Len(parts) >= 2
              THEN {parts[1] \o Slash \o parts[2]} ELSE {})

\* C12: for a specifier that is no key of the index, the library is the entry
\* of the longest candidate that is a key, and the sentinel 'No match found in
\* lock file' when no candidate is a key.
C12_LongestCandidateOrSentinel ==
    (call.fn = "jsLibrary" /\ ret.done /\ call.value \notin DOMAIN call.dependencyMap) =>
        LET K == CandidateSet(call.value) \cap DOMAIN call.dependencyMap
        IN  IF K = {}
            THEN ret.value = <<"N", "o", " ", "m", "a", "t", "c", "h", " ", "f", "o", "u", "n", "d", " ", "i", "n", " ", "l", "o", "c", "k", " ", "f", "i", "l", "e">>
            ELSE \E k \in K : /\ \A j \in K : Len(j) <= Len(k)
                              /\ ret.value = call.dependencyMap[k]

\* C12 witness: l/f/l resolved to the entry of l/f although l is a key too.
C12_Witness ==
    /\ call.fn = "jsLibrary" /\ ret.done
    /\ call.value = <<"l", "/", "f", "/", "l">>
    /\ DOMAIN call.dependencyMap = {<<"l">>, <<"l", "/", "f">>}
    /\ ret.value = <<"l", "/", "f", "@", "1", ".", "0">>

\* C14: for a specifier that does not start with node:, isNodeModule gives the
\* same answer with the prefix as without it; and when the specifier is a
\* built-in, neither a require of it nor an import of its prefixed form
\* yields a statement.
C14_NodePrefixInvariant ==
    (call.fn = "isNodeModule" /\ ret.done) =>
        /\ ret.value.prefixed = ret.value.plain
        /\ ret.value.plain = (call.importPath \in nodeModules)
        /\ ret.value.plain => ret.value.statements = <<>>
        /\ ~ret.value.plain => Len(ret.value.statements) = 2

\* C14 witness: fs and node:fs are both discarded.
C14_Witness ==
    /\ call.fn = "isNodeModule" /\ ret.done
    /\ call.importPath = <<"f", "s">>
    /\ ret.value.plain /\ ret.value.prefixed
    /\ ret.value.statements = <<>>

-----------------------------------------------------------------------------
(* Further claims about one call of extractImports, under SpecFile *)

\* C13: the statement of a namespace import `import * as R from 'z'` of a
\* package that is neither local nor built-in has importedEntity "* as R" and
\* a modifiers list with `wildcard` among its elements.
C13_NamespaceImportModifiers ==
    (IsJsCall /\ ret.done) =>
        \A i \in DOMAIN ret.value.statements :
            ret.value.statements[i].fullImport = "import * as R from 'z'"
                => /\ ret.value.statements[i].importedEntity
                          = <<"*", " ", "a", "s", " ", "R">>
                   /\ "wildcard" \in Range(ret.value.statements[i].modifiers)

\* A dotted name lies under the platform namespaces java., javax. and jdk. .
UnderPlatformNamespace(name) ==
    \E ns \in {<<"j", "a", "v", "a", ".">>, <<"j", "a", "v", "a", "x", ".">>,
                <<"j", "d", "k", ".">>} :
        /\ Len(name) >= Len(ns)
        /\ \A i \in DOMAIN ns : name[i] = ns[i]

\* C15 as stated: no statement is emitted for an import whose target lies
\* under java., javax. or jdk., whatever its form and wherever its library
\* comes from.
C15_NoPlatformTargetEmitted ==
    (IsJavaCall /\ ret.done) =>
        \A i \in DOMAIN call.file.matches :
            UnderPlatformNamespace(call.file.matches[i].importedClass \o Dot)
                => \A k \in DOMAIN ret.value.statements :
                       ret.value.statements[k].fullImport
                           # javaFullImport(call.file.matches[i])

\* C15 amended: no statement is emitted whose library lies under java., javax.
\* or jdk., whether the library comes from the index or from the fallback and
\* whatever the form of the import.
C15_NoPlatformLibraryEmitted ==
    (IsJavaCall /\ ret.done) =>
        \A k \in DOMAIN ret.value.statements :
            ~UnderPlatformNamespace(ret.value.statements[k].library)

\* C15 witness: of import java.u.L; and import o.j.A; in a file of a project
\* whose index attributes java.u.L to java.base, only the second is emitted.
C15_Witness ==
    /\ IsJavaCall /\ ret.done /\ call.file.readable /\ call.hasMap
    /\ Len(call.file.matches) = 2
    /\ call.file.matches[1].importedClass = <<"j", "a", "v", "a", ".", "u", ".", "L">>
    /\ call.file.matches[2].importedClass = <<"o", ".", "j", ".", "A">>
    /\ mapIndexOf(call.importedClassToJarMap, call.file.matches[1].importedClass) # 0
    /\ Len(ret.value.statements) = 1
    /\ ret.value.statements[1].fullImport = javaFullImport(call.file.matches[2])

-----------------------------------------------------------------------------
(* Claims about the dependency index of a Java project, under SpecManifest *)

IsIndexCall == call.fn = "generateImportedClassToJarMaps"

\* The lines of the two reports of the project of the call.
CallReportLines == Range(call.project.tools.lines \o call.project.tools.testLines)

\* The entries of the index built for the project of the call, none when the
\* project got no index.
CallIndexEntries ==
    UNION {Range(ret.value[i].map) : i \in DOMAIN ret.value}

\* C16: no entry of the index comes from a report line whose archive is the
\* project's own archive, the file name chosen by findProjectJar.
C16_NoSelfReference ==
    (IsIndexCall /\ ret.done) =>
        \A e \in CallIndexEntries :
            ~\E line \in CallReportLines :
                /\ line.archive = findProjectJar(call.project.target)
                /\ line.importedClass = e.key

\* C17: every entry of the index comes from a report line whose source class
\* starts with the group id of the project; a project whose pom yields no
\* group id has no such line.
C17_OnlyOwnGroupLines ==
    (IsIndexCall /\ ret.done) =>
        \A e \in CallIndexEntries :
            \E line \in CallReportLines :
                /\ line.importedClass = e.key
                /\ findGroupId(call.project.pom) # Empty
                /\ StartsWith(line.sourceClass, findGroupId(call.project.pom))

\* C18: a project with a build artifact whose compiled test output cannot be
\* analysed, the other tools succeeding, gets an index: the one built from
\* the report of the main artifact.
C18_IndexWithoutTestOutput ==
    (/\ IsIndexCall /\ ret.done
     /\ findProjectJar(call.project.target) # Empty
     /\ call.project.tools.classpath /\ call.project.tools.javaVersion
     /\ call.project.tools.jdeps
     /\ ~call.project.tools.jdepsTest)
        => /\ Len(ret.value) = 1
           /\ ret.value[1].projectPath = dirname(call.project.pomPath)
           /\ ret.value[1].map = indexReportLines(call.project.tools.lines,
                                     findGroupId(call.project.pom),
                                     findProjectJar(call.project.target), <<>>)

-----------------------------------------------------------------------------
(* Further claims about a run of the engine, under Spec *)

\* The JS/TS files of the repository, and its lock files that cannot be read.
RepoJsFiles == filesOfExtensions(repo.files, <<Ext_js, Ext_ts, Ext_jsx, Ext_tsx>>)
RepoUnreadableLocks ==
    {f \in Range(repo.jsonFiles) :
        f.content.kind = "lock" /\ (~f.readable \/ ~f.content.parses)}

\* C19: when the lock file of a JS/TS project cannot be read or parsed, the
\* JS/TS extractor is constructed all the same and the run is not aborted by
\* the construction.
C19_UnreadableLockfileConfined ==
    (pc # "start" /\ RepoJsFiles # <<>> /\ RepoUnreadableLocks # {}) =>
        /\ \E i \in DOMAIN extractors : extractors[i].extractor.family = "js"
        /\ ~(pc = "failed" /\ returned = <<>>)

\* C20: no file is extracted before groupFilesByExtractor has built the
\* project-level state of every family that has files, and from then on no
\* step changes any of it: the group ids, the per-project indexes and the
\* local prefixes are at every file what they were at the first.
C20_StateBuiltOnceThenReadOnly ==
    /\ [](returned # <<>> => pc # "start")
    /\ [](pc \in {"loop", "save", "done"} =>
            /\ RepoJsFiles # <<>> =>
                  \E i \in DOMAIN extractors : extractors[i].extractor.family = "js"
            /\ filesOfExtensions(repo.files, <<Ext_java>>) # <<>> =>
                  \E i \in DOMAIN extractors : extractors[i].extractor.family = "java"
            /\ \A i \in DOMAIN extractors :
                  extractors[i].extractor =
                      IF extractors[i].extractor.family = "java"
                      THEN javaCreateExtractor(repo.javaProjects)
                      ELSE jsCreateExtractor(repo.jsonFiles).extractor)
    /\ [][pc # "start" => extractors' = extractors]_vars

\* C20 witness: a completed run in which both families extracted a file.
C20_Witness ==
    /\ pc = "done"
    /\ Len(extractors) = 2
    /\ Len(returned) >= 2
    /\ returned[1].family = "js"
    /\ returned[Len(returned)].family = "java"

-----------------------------------------------------------------------------
(* Claims about local JS/TS specifiers, under SpecResolve *)

\* C24: a specifier is local, and a file requiring it yields no statement,
\* exactly when it starts with ./, ../ or /, or equals a prefix registered by
\* any configuration file of the repository, or continues one with a /; any
\* other specifier that is no platform module yields its statement.
C24_LocalIffPathOrAliasPrefix ==
    (call.fn = "jsIsLocalImport" /\ ret.done) =>
        LET s == call.importPath
            AllPrefixes == UNION {prefixesOfConfig(call.configs[i]) : i \in DOMAIN call.configs}
            continues(p) == /\ Len(s) > Len(p)
                            /\ SubSeq(s, 1, Len(p)) = p
                            /\ s[Len(p) + 1] = "/"
            expected == \/ (Len(s) >= 2 /\ SubSeq(s, 1, 2) = <<".", "/">>)
                        \/ (Len(s) >= 3 /\ SubSeq(s, 1, 3) = <<".", ".", "/">>)
                        \/ (Len(s) >= 1 /\ s[1] = "/")
                        \/ \E p \in AllPrefixes : s = p \/ continues(p)
        IN  /\ ret.value.local = expected
            /\ expected => ret.value.statements = <<>>
            /\ (~expected /\ s \notin nodeModules) => Len(ret.value.statements) = 1

\* C24 witness: with the prefix src registered by the configuration of /r/u
\* alone, a file of /r/w that requires src-utils keeps its statement.
C24_Witness ==
    /\ call.fn = "jsIsLocalImport" /\ ret.done
    /\ Len(call.configs) = 1
    /\ dirname(call.configs[1].path) = <<"/", "r", "/", "u">>
    /\ ret.value.prefixes = {<<"s", "r", "c">>}
    /\ call.importPath = <<"s", "r", "c", "-", "u", "t", "i", "l", "s">>
    /\ ~ret.value.local
    /\ Len(ret.value.statements) = 1

\* C25: one readable configuration file with at least one alias pattern
\* registers each pattern without its trailing /*; one without any pattern
\* (an empty paths object included) registers its cleaned baseUrl when that
\* is present and not empty, and nothing otherwise.
C25_PrefixesOfOneConfig ==
    (/\ call.fn = "extractLocalAbsoluteImportPrefixes" /\ ret.done
     /\ Len(call.configs) = 1 /\ call.configs[1].readable) =>
        LET c == call.configs[1].content
            patterns == IF c.hasPaths THEN Range(c.paths) ELSE {}
        IN  ret.value =
                IF patterns # {} THEN {cleanPathsKey(k) : k \in patterns}
                ELSE IF c.baseUrl # Empty /\ cleanBaseUrl(c.baseUrl) # Empty
                THEN {cleanBaseUrl(c.baseUrl)}
                ELSE {}

-----------------------------------------------------------------------------
(* Claims about Java attribution, under SpecFile *)

\* The target of an emitted Java statement, read back from its text:
\* import [static ]target[.*];
StatementTarget(st) ==
    LET from == Len(W_import)
                + (IF "static" \in Range(st.modifiers) THEN Len(W_static) ELSE 0) + 1
        to == Len(st.fullImport) - Len(Semicolon)
              - (IF "wildcard" \in Range(st.modifiers) THEN Len(DotStar) ELSE 0)
    IN  SubSeq(st.fullImport, from, to)

\* The positions of the index keys that are the target extended by exactly
\* one dotted segment.
DirectKeys(packageToJarMap, target) ==
    {i \in DOMAIN packageToJarMap :
        LET key == packageToJarMap[i].key
        IN  /\ Len(key) > Len(target) + 1
            /\ SubSeq(key, 1, Len(target) + 1) = target \o Dot
            /\ \A k \in (Len(target) + 2)..Len(key) : key[k] # "."}

\* C22: an emitted wildcard statement whose target is no index key, while
\* some key is the target extended by one segment, has the archive of the
\* first such key as library and * as importedEntity; keys of deeper
\* sub-packages are not used.
C22_WildcardFromDirectKey ==
    (IsJavaCall /\ ret.done) =>
        \A i \in DOMAIN ret.value.statements :
            LET st == ret.value.statements[i]
                target == StatementTarget(st)
                idx == call.importedClassToJarMap
                direct == DirectKeys(idx, target)
            IN  (/\ "wildcard" \in Range(st.modifiers)
                 /\ \A k \in DOMAIN idx : idx[k].key # target
                 /\ direct # {}) =>
                    /\ st.library = idx[CHOOSE k \in direct : \A j \in direct : k <= j].jar
                    /\ st.importedEntity = Star

\* C23: an emitted statement without the wildcard modifier has the archive
\* and the stored entity of the index entry whose key is its full target
\* when there is one, and the result of the syntactic fallback otherwise; so
\* a static member import whose class alone is a key is not attributed from
\* the index.
C23_ExactKeyOrFallback ==
    (IsJavaCall /\ ret.done) =>
        \A i \in DOMAIN ret.value.statements :
            LET st == ret.value.statements[i]
                target == StatementTarget(st)
                idx == call.importedClassToJarMap
                exact == {k \in DOMAIN idx : idx[k].key = target}
                guess == fallbackForNotFindingJarMatch(target, FALSE,
                                                       "static" \in Range(st.modifiers))
            IN  "wildcard" \notin Range(st.modifiers) =>
                    IF exact # {}
                    THEN \E k \in exact : /\ st.library = idx[k].jar
                                           /\ st.importedEntity = idx[k].entity
                    ELSE /\ st.library = guess.library
                         /\ st.importedEntity = guess.importedEntity

\* C23 witness: import static o.M.w with o.M a key of the index: the
\* statement is the fallback's, library o and entity M.w.
C23_Witness ==
    /\ IsJavaCall /\ ret.done
    /\ \E k \in DOMAIN call.importedClassToJarMap :
          call.importedClassToJarMap[k].key = <<"o", ".", "M">>
    /\ \E i \in DOMAIN ret.value.statements :
          /\ StatementTarget(ret.value.statements[i]) = <<"o", ".", "M", ".", "w">>
          /\ ret.value.statements[i].modifiers = <<"static">>
          /\ ret.value.statements[i].library = <<"o">>
          /\ ret.value.statements[i].importedEntity = <<"M", ".", "w">>

\* The matches of the file whose target starts with no group id.
NonLocalMatches ==
    {i \in DOMAIN call.file.matches :
        \A g \in DOMAIN call.groupIds :
            LET t == call.file.matches[i].importedClass
                id == call.groupIds[g]
            IN  ~(Len(t) >= Len(id) /\ SubSeq(t, 1, Len(id)) = id)}

\* C29: no emitted statement has a target that starts with one of the group
\* ids of the repository, and every match of a file that was read whose
\* target starts with none of them reaches resolution: it is emitted unless
\* its resolved library is a platform namespace.
C29_NoLocalTargetEmitted ==
    (IsJavaCall /\ ret.done) =>
        /\ \A i \in DOMAIN ret.value.statements :
              \A g \in DOMAIN call.groupIds :
                  LET t == StatementTarget(ret.value.statements[i])
                      id == call.groupIds[g]
                  IN  ~(Len(t) >= Len(id) /\ SubSeq(t, 1, Len(id)) = id)
        /\ (~ret.value.threw /\ call.file.readable) =>
              Len(ret.value.statements) =
                  Cardinality({i \in NonLocalMatches :
                      LET m == call.file.matches[i]
                      IN  ~UnderPlatformNamespace(
                              getLibraryAndImportedEntity(m.importedClass, m.isStatic,
                                  m.isWildcard, call.importedClassToJarMap).library)})

\* C29 witness: with the group ids h and g, import g.X is discarded and
\* import o.j.A of the same file is emitted.
C29_Witness ==
    /\ IsJavaCall /\ ret.done /\ ~ret.value.threw
    /\ call.groupIds = <<<<"h">>, <<"g">>>>
    /\ Len(call.file.matches) = 2
    /\ call.file.matches[1].importedClass = <<"g", ".", "X">>
    /\ Len(ret.value.statements) = 1
    /\ StatementTarget(ret.value.statements[1]) = <<"o", ".", "j", ".", "A">>

-----------------------------------------------------------------------------
(* Claims about root discovery and archive names, under SpecManifest *)

\* Directory a lies strictly above directory b.
ProperAncestorDir(a, b) ==
    /\ a # b
    /\ \/ a = Slash
       \/ (Len(b) > Len(a) /\ SubSeq(b, 1, Len(a) + 1) = a \o Slash)

\* The directory of a manifest path: the path without its /pom.xml.
ManifestDir(pomPath) ==
    IF Len(pomPath) = Len(PomXml) + 1 THEN Slash
    ELSE SubSeq(pomPath, 1, Len(pomPath) - Len(PomXml) - 1)

\* C26: the roots returned are manifests of the list, none lies above
\* another, every manifest with no manifest above it is returned, and every
\* manifest not returned lies below a returned root.
C26_RootsAreCoveringAntichain ==
    (call.fn = "findRootPomXmlPathsFromFiles" /\ ret.done) =>
        LET manifests == {x \in Range(call.xmlFilePaths) : EndsWith(x, Slash \o PomXml)}
            roots == Range(ret.value)
        IN  /\ roots \subseteq manifests
            /\ \A r1, r2 \in roots :
                  ~ProperAncestorDir(ManifestDir(r1), ManifestDir(r2))
            /\ \A m \in manifests :
                  (\A q \in manifests : ~ProperAncestorDir(ManifestDir(q), ManifestDir(m)))
                      => m \in roots
            /\ \A m \in manifests \ roots :
                  \E r \in roots : ProperAncestorDir(ManifestDir(r), ManifestDir(m))

\* C26 witness: /r/c/d/e/pom.xml, listed first, is not a root because of
\* /r/c/pom.xml two levels above it, while /r/a/b/pom.xml is one.
C26_Witness ==
    /\ call.fn = "findRootPomXmlPathsFromFiles" /\ ret.done
    /\ call.xmlFilePaths = <<<<"/", "r", "/", "c", "/", "d", "/", "e", "/", "p", "o", "m", ".", "x", "m", "l">>, <<"/", "r", "/", "a", "/", "b", "/", "p", "o", "m", ".", "x", "m", "l">>, <<"/", "r", "/", "c", "/", "p", "o", "m", ".", "x", "m", "l">>>>
    /\ ret.value = <<<<"/", "r", "/", "a", "/", "b", "/", "p", "o", "m", ".", "x", "m", "l">>, <<"/", "r", "/", "c", "/", "p", "o", "m", ".", "x", "m", "l">>>>

\* The last position of a dash from which a version (digits, a dot, a digit)
\* starts, 0 when there is none.
LastVersionDash(s) ==
    LET I == {i \in DOMAIN s : versionStartsAt(s, i)}
    IN  IF I = {} THEN 0 ELSE CHOOSE i \in I : \A j \in I : j <= i

\* C28: the archive coordinate stored for a report line is the archive name
\* without .jar, its last -version segment written with @, and the name
\* unchanged when it has no version segment.
C28_LastVersionSegmentRewritten ==
    (call.fn = "indexReportLines" /\ ret.done) =>
        LET name == IF EndsWith(call.archive, W_jar)
                    THEN SubSeq(call.archive, 1, Len(call.archive) - Len(W_jar))
                    ELSE call.archive
            k == LastVersionDash(name)
        IN  /\ Len(ret.value) = 1
            /\ ret.value[1].jar =
                   IF k = 0 THEN name
                   ELSE SubSeq(name, 1, k - 1) \o AtSign \o SubSeq(name, k + 1, Len(name))

-----------------------------------------------------------------------------
(* Claims about the external commands, under SpecTools *)

\* The commands run so far for a project and a tool.
Invocations(projectPath, tool) ==
    {i \in DOMAIN returned :
        returned[i].projectPath = projectPath /\ returned[i].tool = tool}

\* C27: no command is run twice for one project; after a command failed for
\* a project no other command is run for it; a project that got an index had
\* the classpath command and the analyzer on each of its two targets run
\* exactly once; and the projects that got an index are those of the loop
\* taken as a whole.
C27_EachToolAtMostOnce ==
    /\ \A i, j \in DOMAIN returned :
          (i # j /\ returned[i].projectPath = returned[j].projectPath)
              => returned[i].tool # returned[j].tool
    /\ \A i, j \in DOMAIN returned :
          (i < j /\ ~returned[i].ok) => returned[j].projectPath # returned[i].projectPath
    /\ \A k \in DOMAIN ret.value :
          \A tool \in {"mvn", "jdeps", "jdepsTest"} :
              Cardinality(Invocations(ret.value[k].projectPath, tool)) = 1
    /\ pc = "done" => ret.value = generateImportedClassToJarMaps(call.projects, <<>>)

\* C27 witness: the analyzer failed for the first project, which had four
\* commands run and no more, and the second project was analysed with five.
C27_Witness ==
    /\ pc = "done"
    /\ Len(call.projects) = 2
    /\ Len(returned) = 9
    /\ returned[4].tool = "jdeps" /\ ~returned[4].ok
    /\ returned[5].tool = "ls" /\ returned[5].projectPath = ToolProjectDir(2)
    /\ Len(ret.value) = 1
    /\ ret.value[1].projectPath = ToolProjectDir(2)

-----------------------------------------------------------------------------
(* Claims about the order of the output and the ignore filter, under Spec *)

\* The files of the repository with one extension, in discovery order.
OfExtension(ext) ==
    LET hasExt(f) == Len(f.path) > Len(ext)
                     /\ SubSeq(f.path, Len(f.path) - Len(ext) + 1, Len(f.path)) = ext
    IN  SelectSeq(repo.files, hasExt)

\* The files in the order of the claim: JS/TS before Java, the JS/TS files by
\* extension .js, .ts, .jsx, .tsx, each group in discovery order; without the
\* files the extractor of their family ignores.
ExpectedFileOrder ==
    LET kept(f) == ~isIgnored(f.path,
                        IF f.path[Len(f.path)] = "a" THEN javaExcludedDirectories
                        ELSE javascriptExcludedDirectories,
                        IF f.path[Len(f.path)] = "a" THEN javaExcludedFilePatterns
                        ELSE javascriptExcludedFilePatterns)
    IN  SelectSeq(OfExtension(<<".", "j", "s">>) \o OfExtension(<<".", "t", "s">>) \o OfExtension(<<".", "j", "s", "x">>)
                  \o OfExtension(<<".", "t", "s", "x">>) \o OfExtension(<<".", "j", "a", "v", "a">>), kept)

\* C21: at every moment the files extracted so far are an initial part of
\* the files in the order of the claim, and the aggregate is the
\* concatenation of their statements in that order; a run that reaches the
\* save has extracted all of them and writes that aggregate; and every step
\* leaves the statements already aggregated in place, at the front.
C21_OutputIsOrderedConcatenation ==
    /\ [](/\ Len(returned) <= Len(ExpectedFileOrder)
          /\ \A k \in DOMAIN returned : returned[k].file = ExpectedFileOrder[k]
          /\ importStatements = StatementsOf(returned)
          /\ pc \in {"save", "done"} => Len(returned) = Len(ExpectedFileOrder)
          /\ output.written => output.content = importStatements)
    /\ [][/\ Len(importStatements') >= Len(importStatements)
          /\ SubSeq(importStatements', 1, Len(importStatements)) = importStatements]_vars

\* C21 witness: /r/w/x.ts was found before /r/u/y.js and /r/u has no
\* package: y.js is extracted first.
C21_Witness ==
    /\ Len(repo.files) = 2
    /\ repo.files[1].path = <<"/", "r", "/", "w", "/", "x", ".", "t", "s">>
    /\ repo.files[2].path = <<"/", "r", "/", "u", "/", "y", ".", "j", "s">>
    /\ returned # <<>>
    /\ returned[1].file.path = <<"/", "r", "/", "u", "/", "y", ".", "j", "s">>

\* An excluded-file pattern read as a glob: a leading * stands for any text.
GlobMatches(fileName, pattern) ==
    IF pattern[1] = "*"
    THEN Len(fileName) >= Len(pattern) - 1
         /\ SubSeq(fileName, Len(fileName) - Len(pattern) + 2, Len(fileName)) = Tail(pattern)
    ELSE fileName = pattern

\* C30: a file whose name matches an excluded-file pattern of its family,
\* read as a glob, is never handed to extractImports and no statement of
\* the aggregate is about it.
C30_GlobPatternsIgnored ==
    \A i \in DOMAIN repo.files :
        LET f == repo.files[i]
            patterns == IF f.path[Len(f.path)] = "a" THEN javaExcludedFilePatterns
                        ELSE javascriptExcludedFilePatterns
        IN  (\E pattern \in patterns : GlobMatches(basename(f.path), pattern)) =>
                /\ \A k \in DOMAIN returned : returned[k].file.path # f.path
                /\ \A k \in DOMAIN importStatements :
                      importStatements[k].file # getRelativePathToRepo(repo.repoPath, f.path)

=============================================================================
